---- MODULE Spec2Model ----
(***************************************************************************)
(* A model of the storages-api crate: the Storage backends (InlineStorage, *)
(* AllocStorage, SmallStorage, BorrowedStorage, DynStorage, RefStorage,    *)
(* OneUseArenaStorage) as state machines over one byte-addressed memory.   *)
(*                                                                         *)
(* One behaviour follows one storage instance.  Init picks the backend     *)
(* (kind), the shape of its buffer or element (store) and the allocator it *)
(* wraps (allocKind); every step is one call of a storage operation by the *)
(* client, which holds the handles it was given together with the layout   *)
(* of each (live), as RawBox and RawVec do.                                *)
(***************************************************************************)
EXTENDS Integers, Sequences, FiniteSets, TLC

VARIABLES
    kind,       \* which backend this behaviour is about
    store,      \* Layout of DataStore (inline, small, borrowed), of T (ref, arena), of the payload U (dyn)
    allocKind,  \* the wrapped Allocator: "Global" or the always-failing "NullAlloc"
    mem,        \* memory: base address of a region |-> its bytes (Uninit where never written)
    heap,       \* regions live in the allocator: base address |-> the Layout it was allocated with
    next,       \* OneUseArenaStorage::next
    origin,     \* which constructor built the box ("none" before construction, "parts" while taken apart)
    dropped,    \* the addresses at which a payload's destructor has run, in order
    metadata,   \* RawVec::metadata, the slice length the vec reports
    live,       \* the client's valid handles: handle |-> [layout, wrote, data]
    last        \* the last call: operation, result, layouts, returned pointer, allocator calls made

vars == <<kind, store, allocKind, mem, heap, next, origin, dropped, metadata, live, last>>

----------------------------------------------------------------------------
(* Bounds of the model. *)

\* number of distinct addresses the allocator can hand out
NumHeapAddrs == 2
\* capacity N of OneUseArenaStorage<T, N>
ArenaN == 2
\* longest slice a RawVec is asked for
MaxLen == 2

(* Program constants. *)

\* size and alignment of usize and of a thin pointer, in bytes
WordSize == 8
\* a byte of MaybeUninit memory that was never written
Uninit == -1

Layout(s, a) == [size |-> s, align |-> a]
\* the first bytes of the patterns a client writes
Vals == {1, 2}

\* the layouts a client asks for: smaller than a word, a word, two words,
\* and one that is small but aligned more strictly than any buffer
Layouts == {Layout(4, 4), Layout(8, 8), Layout(16, 8), Layout(4, 16)}
Stores == {Layout(4, 4), Layout(8, 8), Layout(16, 8)}
NoLayout == Layout(0, 0)
\* the layouts of [usize]: one alignment, a whole number of elements
SliceLayouts == {l \in Layouts : l.align = 8 /\ l.size % 8 = 0}

WordLayout == Layout(WordSize, WordSize)

HeapAddrs == {256 * i : i \in 1..NumHeapAddrs}
SelfAddr == 256 * (NumHeapAddrs + 1)
PlaceAddr == 256 * (NumHeapAddrs + 2)

Kinds == {"inline", "alloc", "small", "borrowed", "dyn", "ref", "arena", "vec", "box"}

----------------------------------------------------------------------------
(* Memory. *)

Fresh(n) == [i \in 1..n |-> Uninit]
Pattern(v, n) == [i \in 1..n |-> v + i - 1]

\* regions lie 256 bytes apart and none is longer than that
Mapped(m, addr) == \E b \in DOMAIN m : b <= addr /\ addr < b + 256
BaseOf(m, addr) == CHOOSE b \in DOMAIN m : b <= addr /\ addr < b + 256

\* a read outside every region, or past the end of one, yields no defined byte
ReadMem(m, addr, n) ==
    IF ~Mapped(m, addr) THEN Fresh(n)
    ELSE LET b == BaseOf(m, addr)
         IN [i \in 1..n |-> IF addr - b + i <= Len(m[b]) THEN m[b][addr - b + i] ELSE Uninit]

WriteMem(m, addr, bytes) ==
    IF ~Mapped(m, addr) THEN m
    ELSE LET b == BaseOf(m, addr)
             off == addr - b
         IN [m EXCEPT ![b] = [j \in 1..Len(@) |->
                IF j > off /\ j <= off + Len(bytes) THEN bytes[j - off] ELSE @[j]]]

RemoveKey(f, k) == [x \in DOMAIN f \ {k} |-> f[x]]

\* a pointer stored into memory: WordSize bytes, little endian
RECURSIVE ByteOf(_, _)
ByteOf(p, i) == IF i = 1 THEN p % 256 ELSE ByteOf(p \div 256, i - 1)
EncodePtr(p) == [i \in 1..WordSize |-> ByteOf(p, i)]

RECURSIVE DecodeFrom(_, _)
DecodeFrom(bytes, i) ==
    IF i > Len(bytes) THEN 0 ELSE bytes[i] + 256 * DecodeFrom(bytes, i + 1)
DecodePtr(bytes) == DecodeFrom(bytes, 1)

----------------------------------------------------------------------------
(* polyfill.rs *)

\* faulty variant: the alignment is not compared
layout_fits_in_size_only(inner, outer) == inner.size <= outer.size


layout_fits_in(inner, outer) ==
    inner.align <= outer.align /\ inner.size <= outer.size

----------------------------------------------------------------------------
(* The record of a call. *)

Call(op, res, old, new, ret, calls) ==
    [op |-> op, res |-> res, old |-> old, new |-> new, ret |-> ret, calls |-> calls]

\* a panic or undefined behaviour ends the behaviour, and so does the drop
\* of the box or vec that owns the storage
Halted == last.res \in {"Panic", "UB"} \/ last.op = "drop"

Entry(layout) == [layout |-> layout, wrote |-> FALSE, data |-> <<>>]
NoHandles == << >>
UnitHandle == "()"

----------------------------------------------------------------------------
(* InlineStorage (inline.rs, the metadata-based Storage<T>).  The metadata *)
(* of T is modelled by the Layout it describes.                            *)

InlineStorageHandle(meta) == [meta |-> meta]

\* faulty variant: strict comparison, a layout equal to the buffer's does not fit
InlineStorage_fits_strict(meta) ==
    meta.align < store.align /\ meta.size < store.size

\* faulty variant: the size is not compared
InlineStorage_fits_align_only(meta) == meta.align <= store.align


InlineStorage_fits(meta) == layout_fits_in(meta, store)

InlineStorage_create(meta) ==
    /\ kind = "inline" /\ ~Halted
    /\ DOMAIN live = {}
    /\ IF layout_fits_in(meta, store)
       THEN /\ live' = (InlineStorageHandle(meta) :> Entry(meta))
            /\ last' = Call("create", "Ok", NoLayout, meta, 0, <<>>)
       ELSE /\ live' = live
            /\ last' = Call("create", "Err", NoLayout, meta, 0, <<>>)
    /\ UNCHANGED <<kind, store, allocKind, mem, heap, next, origin, dropped, metadata>>

InlineStorage_destroy(h) ==
    /\ kind = "inline" /\ ~Halted
    /\ h \in DOMAIN live
    /\ live' = RemoveKey(live, h)
    /\ last' = Call("destroy", "Ok", live[h].layout, NoLayout, 0, <<>>)
    /\ UNCHANGED <<kind, store, allocKind, mem, heap, next, origin, dropped, metadata>>

InlineStorage_resolve(h) == SelfAddr
InlineStorage_resolve_mut(h) == SelfAddr

----------------------------------------------------------------------------
(* The wrapped core::alloc::Allocator, as AllocStorage calls it.  Global   *)
(* may fail any request; NullAlloc (tests/useful_properties.rs) fails      *)
(* every allocate and its deallocate is unreachable!().                    *)

FreeAddrs(hp) == {a \in HeapAddrs : a \notin DOMAIN hp}

Failure(hp, m) == [ok |-> FALSE, ptr |-> 0, heap |-> hp, mem |-> m]

\* the block is live and was allocated with this layout
Fits(hp, ptr, layout) == ptr \in DOMAIN hp /\ hp[ptr] = layout

Allocator_allocate(hp, m, layout) ==
    IF allocKind = "NullAlloc" THEN {Failure(hp, m)}
    ELSE {Failure(hp, m)} \cup
         {[ok |-> TRUE, ptr |-> a,
           heap |-> (a :> layout) @@ hp,
           mem |-> (a :> Fresh(layout.size)) @@ m] : a \in FreeAddrs(hp)}

Allocator_deallocate(hp, m, ptr) ==
    [heap |-> RemoveKey(hp, ptr), mem |-> RemoveKey(m, ptr)]

\* grow and shrink keep the old block on failure; on success the block may
\* have moved, its first min(old, new) bytes are kept, the rest is fresh
Resized(hp, m, ptr, new, a) ==
    LET bytes == [i \in 1..new.size |-> IF i <= Len(m[ptr]) THEN m[ptr][i] ELSE Uninit]
    IN [ok |-> TRUE, ptr |-> a,
        heap |-> (a :> new) @@ RemoveKey(hp, ptr),
        mem |-> (a :> bytes) @@ RemoveKey(m, ptr)]

Allocator_grow(hp, m, ptr, new) ==
    IF allocKind = "NullAlloc" THEN {Failure(hp, m)}
    ELSE {Failure(hp, m)} \cup
         {Resized(hp, m, ptr, new, a) : a \in FreeAddrs(hp) \cup {ptr}}

Allocator_shrink(hp, m, ptr, new) ==
    IF allocKind = "NullAlloc" THEN {Failure(hp, m)}
    ELSE {Failure(hp, m)} \cup
         {Resized(hp, m, ptr, new, a) : a \in FreeAddrs(hp) \cup {ptr}}

----------------------------------------------------------------------------
(* AllocStorage (alloc.rs).  An AllocHandle is the pointer.                *)

AllocHandle(ptr) == ptr

AllocStorage_allocate(layout) ==
    /\ kind = "alloc" /\ ~Halted
    /\ \E o \in Allocator_allocate(heap, mem, layout) :
        /\ heap' = o.heap
        /\ mem' = o.mem
        /\ IF o.ok
           THEN /\ live' = (AllocHandle(o.ptr) :> Entry(layout)) @@ live
                /\ last' = Call("allocate", "Ok", NoLayout, layout, o.ptr, <<"allocate">>)
           ELSE /\ live' = live
                /\ last' = Call("allocate", "Err", NoLayout, layout, 0, <<"allocate">>)
    /\ UNCHANGED <<kind, store, allocKind, next, origin, dropped, metadata>>

\* faulty variant: the handle is forgotten, the allocator is not called
AllocStorage_deallocate_leaks(h) ==
    /\ kind = "alloc" /\ ~Halted
    /\ h \in DOMAIN live
    /\ live' = RemoveKey(live, h)
    /\ last' = Call("deallocate", "Ok", live[h].layout, NoLayout, h, <<>>)
    /\ UNCHANGED <<kind, store, allocKind, mem, heap, next, origin, dropped, metadata>>


AllocStorage_deallocate(h) ==
    /\ kind = "alloc" /\ ~Halted
    /\ h \in DOMAIN live
    /\ live' = RemoveKey(live, h)
    /\ IF allocKind = "NullAlloc"
       THEN /\ last' = Call("deallocate", "Panic", live[h].layout, NoLayout, h, <<"deallocate">>)
            /\ UNCHANGED <<heap, mem>>
       ELSE IF ~Fits(heap, h, live[h].layout)
       THEN /\ last' = Call("deallocate", "UB", live[h].layout, NoLayout, h, <<"deallocate">>)
            /\ UNCHANGED <<heap, mem>>
       ELSE /\ heap' = Allocator_deallocate(heap, mem, h).heap
            /\ mem' = Allocator_deallocate(heap, mem, h).mem
            /\ last' = Call("deallocate", "Ok", live[h].layout, NoLayout, h, <<"deallocate">>)
    /\ UNCHANGED <<kind, store, allocKind, next, origin, dropped, metadata>>

AllocStorage_resolve(h, layout) == h
AllocStorage_resolve_mut(h, layout) == h

\* the handle h is replaced by the handle of the resized block
Rehandle(lv, h, ptr, new) == (AllocHandle(ptr) :> Entry(new)) @@ RemoveKey(lv, h)

AllocStorage_grow(h, new) ==
    /\ kind = "alloc" /\ ~Halted
    /\ h \in DOMAIN live
    /\ new.size >= live[h].layout.size
    /\ Fits(heap, h, live[h].layout)
    /\ \E o \in Allocator_grow(heap, mem, h, new) :
        /\ heap' = o.heap
        /\ mem' = o.mem
        /\ IF o.ok
           THEN /\ live' = Rehandle(live, h, o.ptr, new)
                /\ last' = Call("grow", "Ok", live[h].layout, new, o.ptr, <<"grow">>)
           ELSE /\ live' = live
                /\ last' = Call("grow", "Err", live[h].layout, new, 0, <<"grow">>)
    /\ UNCHANGED <<kind, store, allocKind, next, origin, dropped, metadata>>

AllocStorage_shrink(h, new) ==
    /\ kind = "alloc" /\ ~Halted
    /\ h \in DOMAIN live
    /\ new.size <= live[h].layout.size
    /\ Fits(heap, h, live[h].layout)
    /\ \E o \in Allocator_shrink(heap, mem, h, new) :
        /\ heap' = o.heap
        /\ mem' = o.mem
        /\ IF o.ok
           THEN /\ live' = Rehandle(live, h, o.ptr, new)
                /\ last' = Call("shrink", "Ok", live[h].layout, new, o.ptr, <<"shrink">>)
           ELSE /\ live' = live
                /\ last' = Call("shrink", "Err", live[h].layout, new, 0, <<"shrink">>)
    /\ UNCHANGED <<kind, store, allocKind, next, origin, dropped, metadata>>

----------------------------------------------------------------------------
(* The default SliceStorage::grow and ::shrink of every MultipleStorage    *)
(* (traits.rs), here over AllocStorage: create, copy, destroy.  The        *)
(* metadata of [T] is its length; new is the layout of the new length.     *)

\* faulty variant: the old handle is destroyed before the copy reads it
SliceResize_destroy_first(op, old_handle, new, len) ==
    \E o \in Allocator_allocate(heap, mem, new) :
        IF ~o.ok
        THEN /\ last' = Call(op, "Err", live[old_handle].layout, new, 0, <<"allocate">>)
             /\ UNCHANGED <<heap, mem, live>>
        ELSE LET new_ptr == AllocStorage_resolve_mut(AllocHandle(o.ptr), new)
                 old_ptr == AllocStorage_resolve_mut(old_handle, live[old_handle].layout)
                 freed == Allocator_deallocate(o.heap, o.mem, old_handle)
             IN /\ heap' = freed.heap
                /\ mem' = WriteMem(freed.mem, new_ptr, ReadMem(freed.mem, old_ptr, len))
                /\ live' = Rehandle(live, old_handle, o.ptr, new)
                /\ last' = Call(op, "Ok", live[old_handle].layout, new, o.ptr,
                                <<"allocate", "deallocate">>)


\* create(new_len)?, copy len elements from old to new, destroy(old_handle)
SliceResize(op, old_handle, new, len) ==
    \E o \in Allocator_allocate(heap, mem, new) :
        IF ~o.ok
        THEN /\ last' = Call(op, "Err", live[old_handle].layout, new, 0, <<"allocate">>)
             /\ UNCHANGED <<heap, mem, live>>
        ELSE LET new_ptr == AllocStorage_resolve_mut(AllocHandle(o.ptr), new)
                 old_ptr == AllocStorage_resolve_mut(old_handle, live[old_handle].layout)
                 copied == WriteMem(o.mem, new_ptr, ReadMem(o.mem, old_ptr, len))
             IN /\ heap' = Allocator_deallocate(o.heap, copied, old_handle).heap
                /\ mem' = Allocator_deallocate(o.heap, copied, old_handle).mem
                /\ live' = Rehandle(live, old_handle, o.ptr, new)
                /\ last' = Call(op, "Ok", live[old_handle].layout, new, o.ptr,
                                <<"allocate", "deallocate">>)

SliceStorage_grow(old_handle, new) ==
    /\ kind = "alloc" /\ ~Halted
    /\ old_handle \in DOMAIN live
    /\ new.size >= live[old_handle].layout.size
    /\ Fits(heap, old_handle, live[old_handle].layout)
    /\ SliceResize("default grow", old_handle, new, live[old_handle].layout.size)
    /\ UNCHANGED <<kind, store, allocKind, next, origin, dropped, metadata>>

SliceStorage_shrink(old_handle, new) ==
    /\ kind = "alloc" /\ ~Halted
    /\ old_handle \in DOMAIN live
    /\ new.size <= live[old_handle].layout.size
    /\ Fits(heap, old_handle, live[old_handle].layout)
    /\ SliceResize("default shrink", old_handle, new, new.size)
    /\ UNCHANGED <<kind, store, allocKind, next, origin, dropped, metadata>>

----------------------------------------------------------------------------
(* SmallStorage (small.rs): an InlineStorage<DataStore> at SelfAddr and an *)
(* AllocStorage.  The handle is (); the state is told from the layout.     *)

OUTLINE_HANDLE_LAYOUT == WordLayout

\* InlineStorage::grow and ::shrink of the layout-based interface
InlineStorage_grow(new) == IF InlineStorage_fits(new) THEN "Ok" ELSE "Err"
InlineStorage_shrink(new) == IF InlineStorage_fits(new) THEN "Ok" ELSE "Err"

\* the heap handle kept in the inline buffer
StoredHandle(m) == DecodePtr(ReadMem(m, SelfAddr, WordSize))
StoreHandle(m, addr) == WriteMem(m, SelfAddr, EncodePtr(addr))

SmallStorage_allocate(layout) ==
    /\ kind = "small" /\ ~Halted
    /\ DOMAIN live = {}
    /\ IF InlineStorage_fits(layout)
       THEN /\ live' = (UnitHandle :> Entry(layout))
            /\ last' = Call("allocate", "Ok", NoLayout, layout, 0, <<>>)
            /\ UNCHANGED <<heap, mem>>
       ELSE \E o \in Allocator_allocate(heap, mem, layout) :
            IF ~o.ok
            THEN /\ last' = Call("allocate", "Err", NoLayout, layout, 0, <<"allocate">>)
                 /\ UNCHANGED <<heap, mem, live>>
            ELSE IF ~InlineStorage_fits(OUTLINE_HANDLE_LAYOUT)
            THEN /\ heap' = o.heap
                 /\ mem' = o.mem
                 /\ last' = Call("allocate", "Err", NoLayout, layout, 0, <<"allocate">>)
                 /\ UNCHANGED live
            ELSE /\ heap' = o.heap
                 /\ mem' = StoreHandle(o.mem, o.ptr)
                 /\ live' = (UnitHandle :> Entry(layout))
                 /\ last' = Call("allocate", "Ok", NoLayout, layout, 0, <<"allocate">>)
    /\ UNCHANGED <<kind, store, allocKind, next, origin, dropped, metadata>>

SmallStorage_deallocate(h) ==
    /\ kind = "small" /\ ~Halted
    /\ h \in DOMAIN live
    /\ live' = RemoveKey(live, h)
    /\ LET layout == live[h].layout
           addr == StoredHandle(mem)
       IN IF InlineStorage_fits(layout)
          THEN /\ last' = Call("deallocate", "Ok", layout, NoLayout, 0, <<>>)
               /\ UNCHANGED <<heap, mem>>
          ELSE IF allocKind = "NullAlloc"
          THEN /\ last' = Call("deallocate", "Panic", layout, NoLayout, addr, <<"deallocate">>)
               /\ UNCHANGED <<heap, mem>>
          ELSE IF ~Fits(heap, addr, layout)
          THEN /\ last' = Call("deallocate", "UB", layout, NoLayout, addr, <<"deallocate">>)
               /\ UNCHANGED <<heap, mem>>
          ELSE /\ heap' = Allocator_deallocate(heap, mem, addr).heap
               /\ mem' = Allocator_deallocate(heap, mem, addr).mem
               /\ last' = Call("deallocate", "Ok", layout, NoLayout, addr, <<"deallocate">>)
    /\ UNCHANGED <<kind, store, allocKind, next, origin, dropped, metadata>>

\* faulty variant: the outline arm is missing
SmallStorage_resolve_inline_only(m, layout) == SelfAddr


SmallStorage_resolve(m, layout) ==
    IF InlineStorage_fits(layout) THEN SelfAddr ELSE StoredHandle(m)

SmallStorage_resolve_mut(m, layout) ==
    IF InlineStorage_fits(layout) THEN SelfAddr ELSE StoredHandle(m)

\* grow and shrink, arm (true, true): the inline storage resizes in place
SmallInlineResize(h, op, r, old, new) ==
    /\ live' = IF r = "Ok" THEN (h :> Entry(new)) ELSE live
    /\ last' = Call(op, r, old, new, 0, <<>>)
    /\ UNCHANGED <<heap, mem>>

\* faulty variant: the handle the heap storage returns is dropped
SmallOutlineResize_keeps_handle(h, op, outcomes, old, new) ==
    \E o \in outcomes :
        IF o.ok
        THEN /\ heap' = o.heap
             /\ mem' = o.mem
             /\ live' = (h :> Entry(new))
             /\ last' = Call(op, "Ok", old, new, 0, <<op>>)
        ELSE /\ last' = Call(op, "Err", old, new, 0, <<op>>)
             /\ UNCHANGED <<heap, mem, live>>

\* grow and shrink, arm (false, false): the heap storage resizes, and the
\* handle it returns is written over the one in the inline buffer
SmallOutlineResize(h, op, outcomes, old, new) ==
    \E o \in outcomes :
        IF o.ok
        THEN /\ heap' = o.heap
             /\ mem' = StoreHandle(o.mem, o.ptr)
             /\ live' = (h :> Entry(new))
             /\ last' = Call(op, "Ok", old, new, 0, <<op>>)
        ELSE /\ last' = Call(op, "Err", old, new, 0, <<op>>)
             /\ UNCHANGED <<heap, mem, live>>

\* faulty variant: the copy stops one byte short
PromoteCopyLen_short(old) == old.size - 1


\* the number of bytes promotion copies out of the inline buffer
PromoteCopyLen(old) == old.size

\* faulty variant: the handle is written into the buffer before the copy
SmallPromote_store_first(h, old, new) ==
    IF ~InlineStorage_fits(OUTLINE_HANDLE_LAYOUT)
    THEN /\ last' = Call("grow", "Err", old, new, 0, <<>>)
         /\ UNCHANGED <<heap, mem, live>>
    ELSE \E o \in Allocator_allocate(heap, mem, new) :
         IF ~o.ok
         THEN /\ last' = Call("grow", "Err", old, new, 0, <<"allocate">>)
              /\ UNCHANGED <<heap, mem, live>>
         ELSE LET stored == StoreHandle(o.mem, o.ptr)
                  old_bytes == ReadMem(stored, SelfAddr, PromoteCopyLen(old))
                  copied == WriteMem(stored, o.ptr, old_bytes)
              IN /\ heap' = o.heap
                 /\ mem' = copied
                 /\ live' = (h :> Entry(new))
                 /\ last' = Call("grow", "Ok", old, new, 0, <<"allocate">>)

\* grow, arm (true, false): promotion from the inline buffer to the heap
SmallPromote(h, old, new) ==
    IF ~InlineStorage_fits(OUTLINE_HANDLE_LAYOUT)
    THEN /\ last' = Call("grow", "Err", old, new, 0, <<>>)
         /\ UNCHANGED <<heap, mem, live>>
    ELSE \E o \in Allocator_allocate(heap, mem, new) :
         IF ~o.ok
         THEN /\ last' = Call("grow", "Err", old, new, 0, <<"allocate">>)
              /\ UNCHANGED <<heap, mem, live>>
         ELSE LET old_bytes == ReadMem(o.mem, SelfAddr, PromoteCopyLen(old))
                  copied == WriteMem(o.mem, o.ptr, old_bytes)
              IN /\ heap' = o.heap
                 /\ mem' = StoreHandle(copied, o.ptr)
                 /\ live' = (h :> Entry(new))
                 /\ last' = Call("grow", "Ok", old, new, 0, <<"allocate">>)

\* an arm marked unreachable_unchecked() was reached: the build may have
\* merged it with either neighbouring arm, and nothing can be relied on after
SmallUnreachable(h, op, outcomes, old, new) ==
    /\ live' = NoHandles
    /\ \/ /\ last' = Call(op, "UB", old, new, 0, <<>>)
          /\ UNCHANGED <<heap, mem>>
       \/ \E o \in outcomes :
          /\ heap' = o.heap
          /\ mem' = IF o.ok THEN StoreHandle(o.mem, o.ptr) ELSE o.mem
          /\ last' = Call(op, "UB", old, new, 0, <<op>>)

SmallStorage_grow(h, new) ==
    /\ kind = "small" /\ ~Halted
    /\ h \in DOMAIN live
    /\ new.size >= live[h].layout.size
    /\ LET old == live[h].layout
           old_fits == InlineStorage_fits(old)
           new_fits == InlineStorage_fits(new)
       IN IF old_fits /\ new_fits
          THEN SmallInlineResize(h, "grow", InlineStorage_grow(new), old, new)
          ELSE IF ~old_fits /\ new_fits
          THEN SmallUnreachable(h, "grow",
                   IF Fits(heap, StoredHandle(mem), old)
                   THEN Allocator_grow(heap, mem, StoredHandle(mem), new)
                   ELSE {}, old, new)
          ELSE IF ~old_fits /\ ~new_fits
          THEN IF Fits(heap, StoredHandle(mem), old)
               THEN SmallOutlineResize(h, "grow",
                        Allocator_grow(heap, mem, StoredHandle(mem), new), old, new)
               ELSE /\ last' = Call("grow", "UB", old, new, 0, <<"grow">>)
                    /\ live' = NoHandles
                    /\ UNCHANGED <<heap, mem>>
          ELSE SmallPromote(h, old, new)
    /\ UNCHANGED <<kind, store, allocKind, next, origin, dropped, metadata>>

SmallStorage_shrink(h, new) ==
    /\ kind = "small" /\ ~Halted
    /\ h \in DOMAIN live
    /\ new.size <= live[h].layout.size
    /\ LET old == live[h].layout
           old_fits == InlineStorage_fits(old)
           new_fits == InlineStorage_fits(new)
       IN IF old_fits /\ new_fits
          THEN SmallInlineResize(h, "shrink", InlineStorage_shrink(new), old, new)
          ELSE IF old_fits /\ ~new_fits
          THEN SmallUnreachable(h, "shrink", {}, old, new)
          ELSE IF ~old_fits /\ ~new_fits
          THEN IF Fits(heap, StoredHandle(mem), old)
               THEN SmallOutlineResize(h, "shrink",
                        Allocator_shrink(heap, mem, StoredHandle(mem), new), old, new)
               ELSE /\ last' = Call("shrink", "UB", old, new, 0, <<"shrink">>)
                    /\ live' = NoHandles
                    /\ UNCHANGED <<heap, mem>>
          ELSE \* todo!()
               /\ last' = Call("shrink", "Panic", old, new, 0, <<>>)
               /\ UNCHANGED <<heap, mem, live>>
    /\ UNCHANGED <<kind, store, allocKind, next, origin, dropped, metadata>>

----------------------------------------------------------------------------
(* BorrowedStorage (borrowed.rs): the buffer is someone else's memory, at  *)
(* PlaceAddr.                                                              *)

BorrowedStorage_fits(needed_layout) == layout_fits_in(needed_layout, store)

BorrowedStorage_allocate(layout) ==
    /\ kind = "borrowed" /\ ~Halted
    /\ DOMAIN live = {}
    /\ IF BorrowedStorage_fits(layout)
       THEN /\ live' = (UnitHandle :> Entry(layout))
            /\ last' = Call("allocate", "Ok", NoLayout, layout, 0, <<>>)
       ELSE /\ live' = live
            /\ last' = Call("allocate", "Err", NoLayout, layout, 0, <<>>)
    /\ UNCHANGED <<kind, store, allocKind, mem, heap, next, origin, dropped, metadata>>

BorrowedStorage_deallocate(h) ==
    /\ kind = "borrowed" /\ ~Halted
    /\ h \in DOMAIN live
    /\ live' = RemoveKey(live, h)
    /\ last' = Call("deallocate", "Ok", live[h].layout, NoLayout, 0, <<>>)
    /\ UNCHANGED <<kind, store, allocKind, mem, heap, next, origin, dropped, metadata>>

BorrowedStorage_resolve(layout) == PlaceAddr
BorrowedStorage_resolve_mut(layout) == PlaceAddr

BorrowedStorage_grow(h, new) ==
    /\ kind = "borrowed" /\ ~Halted
    /\ h \in DOMAIN live
    /\ new.size >= live[h].layout.size
    /\ IF BorrowedStorage_fits(new)
       THEN /\ live' = (h :> Entry(new))
            /\ last' = Call("grow", "Ok", live[h].layout, new, 0, <<>>)
       ELSE /\ live' = live
            /\ last' = Call("grow", "Err", live[h].layout, new, 0, <<>>)
    /\ UNCHANGED <<kind, store, allocKind, mem, heap, next, origin, dropped, metadata>>

\* debug_assert!(self.fits(new_layout)) panics in a build with debug
\* assertions and is absent from one without
BorrowedStorage_shrink(h, new) ==
    /\ kind = "borrowed" /\ ~Halted
    /\ h \in DOMAIN live
    /\ new.size <= live[h].layout.size
    /\ \/ /\ ~BorrowedStorage_fits(new)
          /\ live' = live
          /\ last' = Call("shrink", "Panic", live[h].layout, new, 0, <<>>)
       \/ /\ live' = (h :> Entry(new))
          /\ last' = Call("shrink", "Ok", live[h].layout, new, 0, <<>>)
    /\ UNCHANGED <<kind, store, allocKind, mem, heap, next, origin, dropped, metadata>>

----------------------------------------------------------------------------
(* RefStorage (referenced.rs): wraps a reference to a T living at          *)
(* PlaceAddr; its one handle exists from construction.  origin tells the   *)
(* RefStorage<T> ("ref") from the RefStorage<ManuallyDrop<T>> ("move_ref").*)

RefStorageHandle == "RefStorageHandle"

\* faulty variant: create hands out the handle of the wrapped reference
RefStorage_create_ok(meta) ==
    /\ kind = "ref" /\ ~Halted
    /\ live' = (RefStorageHandle :> Entry(meta))
    /\ last' = Call("create", "Ok", NoLayout, meta, 0, <<>>)
    /\ UNCHANGED <<kind, store, allocKind, mem, heap, next, origin, dropped, metadata>>


RefStorage_create(meta) ==
    /\ kind = "ref" /\ ~Halted
    /\ last' = Call("create", "Err", NoLayout, meta, 0, <<>>)
    /\ UNCHANGED <<kind, store, allocKind, mem, heap, next, origin, live, dropped, metadata>>

\* faulty variant: the referenced place is released as if the storage owned it
RefStorage_destroy_frees(hp, m) ==
    [heap |-> hp, mem |-> RemoveKey(m, PlaceAddr), calls |-> <<"deallocate">>]


\* the body of destroy is empty: the allocator's regions and memory after it
RefStorage_destroy_body(hp, m) == [heap |-> hp, mem |-> m, calls |-> <<>>]

RefStorage_destroy(h) ==
    /\ kind = "ref" /\ ~Halted
    /\ h \in DOMAIN live
    /\ heap' = RefStorage_destroy_body(heap, mem).heap
    /\ mem' = RefStorage_destroy_body(heap, mem).mem
    /\ last' = Call("destroy", "Ok", live[h].layout, NoLayout, 0,
                    RefStorage_destroy_body(heap, mem).calls)
    /\ UNCHANGED <<kind, store, allocKind, next, origin, live, dropped, metadata>>

RefStorage_resolve(h) == PlaceAddr
RefStorage_resolve_mut(h) == PlaceAddr

----------------------------------------------------------------------------
(* OneUseArenaStorage (one_use_arena.rs): data is N slots of T at SelfAddr. *)

OneUseArenaStorageHandle(index) == [index |-> index]

OneUseArenaStorage_create ==
    /\ kind = "arena" /\ ~Halted
    /\ IF next < ArenaN
       THEN /\ live' = (OneUseArenaStorageHandle(next) :> Entry(store)) @@ live
            /\ next' = next + 1
            /\ last' = Call("create", "Ok", NoLayout, store, next, <<>>)
       ELSE /\ UNCHANGED <<live, next>>
            /\ last' = Call("create", "Err", NoLayout, store, 0, <<>>)
    /\ UNCHANGED <<kind, store, allocKind, mem, heap, origin, dropped, metadata>>

\* faulty variant: destroy gives the last slot back
OneUseArenaStorage_destroy_reuse(h) ==
    /\ kind = "arena" /\ ~Halted
    /\ h \in DOMAIN live
    /\ live' = RemoveKey(live, h)
    /\ next' = next - 1
    /\ last' = Call("destroy", "Ok", live[h].layout, NoLayout, h.index, <<>>)
    /\ UNCHANGED <<kind, store, allocKind, mem, heap, origin, dropped, metadata>>


OneUseArenaStorage_destroy(h) ==
    /\ kind = "arena" /\ ~Halted
    /\ h \in DOMAIN live
    /\ live' = RemoveKey(live, h)
    /\ last' = Call("destroy", "Ok", live[h].layout, NoLayout, h.index, <<>>)
    /\ UNCHANGED <<kind, store, allocKind, mem, heap, next, origin, dropped, metadata>>

OneUseArenaStorage_resolve(h) == SelfAddr + h.index * store.size
OneUseArenaStorage_resolve_mut(h) == SelfAddr + h.index * store.size

----------------------------------------------------------------------------
(* DynStorage (dynamic.rs): one word, storage, at SelfAddr.  It holds the  *)
(* payload U when U fits in a usize and a pointer to U otherwise.  store   *)
(* is the Layout of U.                                                     *)

\* faulty variant: allocation succeeds, as an inline storage's would, when the
\* layout fits the word
DynStorage_allocate_inline(layout) ==
    /\ kind = "dyn" /\ ~Halted
    /\ origin # "none"
    /\ IF layout_fits_in(layout, WordLayout)
       THEN /\ live' = (UnitHandle :> Entry(layout))
            /\ last' = Call("allocate", "Ok", NoLayout, layout, 0, <<>>)
       ELSE /\ live' = live
            /\ last' = Call("allocate", "Err", NoLayout, layout, 0, <<>>)
    /\ UNCHANGED <<kind, store, allocKind, mem, heap, next, origin, dropped, metadata>>


DynStorage_allocate(layout) ==
    /\ kind = "dyn" /\ ~Halted
    /\ origin # "none"
    /\ last' = Call("allocate", "Err", NoLayout, layout, 0, <<>>)
    /\ UNCHANGED <<kind, store, allocKind, mem, heap, next, origin, live, dropped, metadata>>

\* faulty variant: the region the word points to is given back to the allocator
DynStorage_deallocate_frees(hp, m) ==
    LET ptrs == {a \in DOMAIN hp : EncodePtr(a) = ReadMem(m, SelfAddr, WordSize)}
    IN [heap |-> [a \in DOMAIN hp \ ptrs |-> hp[a]],
        mem |-> [a \in DOMAIN m \ ptrs |-> m[a]],
        calls |-> <<"deallocate">>]


\* the body of deallocate is empty: the allocator's regions and memory after it
DynStorage_deallocate_body(hp, m) == [heap |-> hp, mem |-> m, calls |-> <<>>]

DynStorage_deallocate(h) ==
    /\ kind = "dyn" /\ ~Halted
    /\ h \in DOMAIN live
    /\ live' = RemoveKey(live, h)
    /\ heap' = DynStorage_deallocate_body(heap, mem).heap
    /\ mem' = DynStorage_deallocate_body(heap, mem).mem
    /\ last' = Call("deallocate", "Ok", live[h].layout, NoLayout, 0,
                    DynStorage_deallocate_body(heap, mem).calls)
    /\ UNCHANGED <<kind, store, allocKind, next, origin, dropped, metadata>>

\* faulty variant: only the size decides whether the payload is inline
DynStorage_resolve_size_only(m, layout) ==
    IF layout.size <= WordSize
    THEN SelfAddr
    ELSE DecodePtr(ReadMem(m, SelfAddr, WordSize))


DynStorage_resolve(m, layout) ==
    IF layout_fits_in(layout, WordLayout)
    THEN SelfAddr
    ELSE DecodePtr(ReadMem(m, SelfAddr, WordSize))

\* faulty variant: the word is never read as a pointer
DynStorage_resolve_mut_inline_only(m, layout) == SelfAddr


DynStorage_resolve_mut(m, layout) ==
    IF layout_fits_in(layout, WordLayout)
    THEN SelfAddr
    ELSE DecodePtr(ReadMem(m, SelfAddr, WordSize))

DynStorage_grow(h, old, new) ==
    /\ kind = "dyn" /\ ~Halted
    /\ origin # "none"
    /\ last' = Call("grow", "Err", old, new, 0, <<>>)
    /\ UNCHANGED <<kind, store, allocKind, mem, heap, next, origin, live, dropped, metadata>>

DynStorage_shrink(h, old, new) ==
    /\ kind = "dyn" /\ ~Halted
    /\ origin # "none"
    /\ last' = Call("shrink", "Err", old, new, 0, <<>>)
    /\ UNCHANGED <<kind, store, allocKind, mem, heap, next, origin, live, dropped, metadata>>

\* the box a constructor returns: handle (), the payload already in place
Boxed(payload) == (UnitHandle :> [layout |-> store, wrote |-> TRUE, data |-> payload])

\* Box::inline: the InlineStorage<usize> holding U becomes the storage word
Box_inline(v) ==
    /\ kind = "dyn" /\ ~Halted
    /\ origin = "none"
    /\ layout_fits_in(store, WordLayout)
    /\ mem' = WriteMem(mem, SelfAddr, Pattern(v, store.size))
    /\ origin' = "inline"
    /\ live' = Boxed(Pattern(v, store.size))
    /\ last' = Call("inline", "Ok", NoLayout, store, 0, <<>>)
    /\ UNCHANGED <<kind, store, allocKind, heap, next, dropped, metadata>>

\* Box::boxed: from a Box<U, AllocStorage<A>> whose payload is at ptr
Box_boxed(ptr, v) ==
    /\ kind = "dyn" /\ ~Halted
    /\ origin = "none"
    /\ LET payload == Pattern(v, store.size)
           boxed_mem == (ptr :> payload) @@ mem
       IN /\ heap' = (ptr :> store) @@ heap
          /\ mem' = IF layout_fits_in(store, WordLayout)
                    THEN WriteMem(boxed_mem, SelfAddr, ReadMem(boxed_mem, ptr, store.size))
                    ELSE WriteMem(boxed_mem, SelfAddr, EncodePtr(ptr))
          /\ live' = Boxed(payload)
    /\ origin' = "boxed"
    /\ last' = Call("boxed", "Ok", NoLayout, store, ptr, <<>>)
    /\ UNCHANGED <<kind, store, allocKind, next, dropped, metadata>>

\* faulty variant: the address is stored whatever the layout, a small
\* payload is not moved into the word
Box_take_always_pointer(v) ==
    /\ kind = "dyn" /\ ~Halted
    /\ origin = "none"
    /\ LET payload == Pattern(v, store.size)
           taken_mem == (PlaceAddr :> payload) @@ mem
       IN /\ mem' = WriteMem(taken_mem, SelfAddr, EncodePtr(PlaceAddr))
          /\ live' = Boxed(payload)
    /\ origin' = "take"
    /\ last' = Call("take", "Ok", NoLayout, store, PlaceAddr, <<>>)
    /\ UNCHANGED <<kind, store, allocKind, heap, next, dropped, metadata>>


\* Box::take: from a &mut ManuallyDrop<U> to the place at PlaceAddr
Box_take(v) ==
    /\ kind = "dyn" /\ ~Halted
    /\ origin = "none"
    /\ LET payload == Pattern(v, store.size)
           taken_mem == (PlaceAddr :> payload) @@ mem
       IN /\ mem' = IF layout_fits_in(store, WordLayout)
                    THEN WriteMem(taken_mem, SelfAddr, ReadMem(taken_mem, PlaceAddr, store.size))
                    ELSE WriteMem(taken_mem, SelfAddr, EncodePtr(PlaceAddr))
          /\ live' = Boxed(payload)
    /\ origin' = "take"
    /\ last' = Call("take", "Ok", NoLayout, store, PlaceAddr, <<>>)
    /\ UNCHANGED <<kind, store, allocKind, heap, next, dropped, metadata>>

----------------------------------------------------------------------------
(* The client: RawBox::as_ptr and ::as_mut_ptr resolve the handle with the *)
(* layout the box keeps for it, and the client reads or writes the payload *)
(* through the pointer.                                                    *)

Resolve(m, h, layout) ==
    CASE kind = "inline" -> InlineStorage_resolve(h)
      [] kind = "alloc" -> AllocStorage_resolve(h, layout)
      [] kind = "small" -> SmallStorage_resolve(m, layout)
      [] kind = "borrowed" -> BorrowedStorage_resolve(layout)
      [] kind = "dyn" -> DynStorage_resolve(m, layout)
      [] kind = "ref" -> RefStorage_resolve(h)
      [] kind = "arena" -> OneUseArenaStorage_resolve(h)
      [] kind \in {"vec", "box"} -> AllocStorage_resolve(h, layout)

ResolveMut(m, h, layout) ==
    CASE kind = "inline" -> InlineStorage_resolve_mut(h)
      [] kind = "alloc" -> AllocStorage_resolve_mut(h, layout)
      [] kind = "small" -> SmallStorage_resolve_mut(m, layout)
      [] kind = "borrowed" -> BorrowedStorage_resolve_mut(layout)
      [] kind = "dyn" -> DynStorage_resolve_mut(m, layout)
      [] kind = "ref" -> RefStorage_resolve_mut(h)
      [] kind = "arena" -> OneUseArenaStorage_resolve_mut(h)
      [] kind \in {"vec", "box"} -> AllocStorage_resolve_mut(h, layout)

\* what a read of the handle's payload through resolve yields
Payload(m, h, layout) == ReadMem(m, Resolve(m, h, layout), layout.size)

as_ptr(h) ==
    /\ kind # "vec" /\ ~Halted
    /\ h \in DOMAIN live
    /\ last' = Call("resolve", "Ok", live[h].layout, NoLayout,
                    Resolve(mem, h, live[h].layout), <<>>)
    /\ UNCHANGED <<kind, store, allocKind, mem, heap, next, origin, live, dropped, metadata>>

as_mut_ptr(h, v) ==
    /\ kind # "vec" /\ ~Halted
    /\ h \in DOMAIN live
    /\ LET layout == live[h].layout
           ptr == ResolveMut(mem, h, layout)
           bytes == Pattern(v, layout.size)
       IN /\ mem' = WriteMem(mem, ptr, bytes)
          /\ live' = [live EXCEPT ![h] = [layout |-> layout, wrote |-> TRUE, data |-> bytes]]
          /\ last' = Call("resolve_mut", "Ok", layout, NoLayout, ptr, <<>>)
    /\ UNCHANGED <<kind, store, allocKind, heap, next, origin, dropped, metadata>>

\* RawBox::new over AllocStorage<A> for a T of layout store: on failure the
\* storage goes back to the caller, who may try again
RawBox_new ==
    /\ kind = "box" /\ ~Halted
    /\ origin = "none"
    /\ \E o \in Allocator_allocate(heap, mem, store) :
        /\ heap' = o.heap
        /\ mem' = o.mem
        /\ IF o.ok
           THEN /\ live' = (AllocHandle(o.ptr) :> Entry(store))
                /\ origin' = "new"
                /\ last' = Call("RawBox::new", "Ok", NoLayout, store, o.ptr, <<"allocate">>)
           ELSE /\ UNCHANGED <<live, origin>>
                /\ last' = Call("RawBox::new", "Err", NoLayout, store, 0, <<"allocate">>)
    /\ UNCHANGED <<kind, store, allocKind, next, dropped, metadata>>

\* Box::new_in: RawBox::new, handle_alloc_error on failure, then the write
\* of the value
Box_new_in(v) ==
    /\ kind = "box" /\ ~Halted
    /\ origin = "none"
    /\ \E o \in Allocator_allocate(heap, mem, store) :
        /\ heap' = o.heap
        /\ IF o.ok
           THEN /\ mem' = WriteMem(o.mem, AllocStorage_resolve_mut(o.ptr, store),
                                   Pattern(v, store.size))
                /\ live' = (AllocHandle(o.ptr) :>
                              [layout |-> store, wrote |-> TRUE, data |-> Pattern(v, store.size)])
                /\ origin' = "new"
                /\ last' = Call("new_in", "Ok", NoLayout, store, o.ptr, <<"allocate">>)
           ELSE /\ mem' = o.mem
                /\ UNCHANGED <<live, origin>>
                /\ last' = Call("new_in", "Panic", NoLayout, store, 0, <<"allocate">>)
    /\ UNCHANGED <<kind, store, allocKind, next, dropped, metadata>>

\* into_raw_parts: the box is wrapped in ManuallyDrop and its three fields
\* are read out; no destructor and no storage call
Box_into_raw_parts(h) ==
    /\ kind = "box" /\ ~Halted
    /\ origin \in {"new", "from_raw_parts"}
    /\ h \in DOMAIN live
    /\ origin' = "parts"
    /\ last' = Call("into_raw_parts", "Ok", live[h].layout, NoLayout, h, <<>>)
    /\ UNCHANGED <<kind, store, allocKind, mem, heap, next, dropped, metadata, live>>

\* from_raw_parts: the three fields are put together again
Box_from_raw_parts(h) ==
    /\ kind = "box" /\ ~Halted
    /\ origin = "parts"
    /\ h \in DOMAIN live
    /\ origin' = "from_raw_parts"
    /\ last' = Call("from_raw_parts", "Ok", live[h].layout, NoLayout, h, <<>>)
    /\ UNCHANGED <<kind, store, allocKind, mem, heap, next, dropped, metadata, live>>

\* ptr::drop_in_place: defined on a payload whose memory is still there
drop_in_place(m, ptr) == IF Mapped(m, ptr) THEN "Ok" ELSE "UB"

AllocStorage_deallocate_body(hp, m, h) ==
    [heap |-> Allocator_deallocate(hp, m, h).heap,
     mem |-> Allocator_deallocate(hp, m, h).mem,
     calls |-> <<"deallocate">>]

\* Drop for RawBox: storage.deallocate(handle, heap_layout())
RawBox_drop(hp, m, h) ==
    CASE kind = "dyn" -> DynStorage_deallocate_body(hp, m)
      [] kind = "ref" -> RefStorage_destroy_body(hp, m)
      [] kind = "box" -> AllocStorage_deallocate_body(hp, m, h)

\* faulty variant: the storage releases the handle before the destructor runs
Box_drop_deallocate_first(h) ==
    /\ kind \in {"dyn", "ref", "box"} /\ ~Halted
    /\ h \in DOMAIN live
    /\ kind = "ref" => origin = "move_ref"
    /\ kind = "box" => origin \in {"new", "from_raw_parts"}
    /\ LET layout == live[h].layout
           ptr == ResolveMut(mem, h, layout)
           d == RawBox_drop(heap, mem, h)
       IN /\ dropped' = Append(dropped, ptr)
          /\ heap' = d.heap
          /\ mem' = d.mem
          /\ live' = RemoveKey(live, h)
          /\ last' = Call("drop", drop_in_place(d.mem, ptr), layout, NoLayout, ptr, d.calls)
    /\ UNCHANGED <<kind, store, allocKind, next, origin, metadata>>

\* Drop for Box, then Drop for RawBox: the payload's destructor runs in
\* place, then the storage releases the handle.  A Box over a plain
\* RefStorage<T> is not dropped: the owner of the T drops it.
Box_drop(h) ==
    /\ kind \in {"dyn", "ref", "box"} /\ ~Halted
    /\ h \in DOMAIN live
    /\ kind = "ref" => origin = "move_ref"
    /\ kind = "box" => origin \in {"new", "from_raw_parts"}
    /\ LET layout == live[h].layout
           ptr == ResolveMut(mem, h, layout)
           d == RawBox_drop(heap, mem, h)
       IN /\ dropped' = Append(dropped, ptr)
          /\ heap' = d.heap
          /\ mem' = d.mem
          /\ live' = RemoveKey(live, h)
          /\ last' = Call("drop", drop_in_place(mem, ptr), layout, NoLayout, ptr, d.calls)
    /\ UNCHANGED <<kind, store, allocKind, next, origin, metadata>>

----------------------------------------------------------------------------
(* RawVec<usize, AllocStorage<A>> (raw_vec.rs): handle, metadata, storage. *)
(* The handle is the one key of live, whose entry keeps the layout the     *)
(* block really has; metadata is the length the vec believes it has.       *)

Lens == 0..MaxLen

heap_layout_for(n) == Layout(n * WordSize, WordSize)
RawVec_len == metadata
heap_layout == heap_layout_for(RawVec_len)
RawVec_handle == CHOOSE h \in DOMAIN live : TRUE

\* RawVec::new: allocate the layout of the empty slice
RawVec_new ==
    /\ kind = "vec" /\ ~Halted
    /\ last.op = "new"
    /\ \E o \in Allocator_allocate(heap, mem, heap_layout_for(0)) :
        /\ heap' = o.heap
        /\ mem' = o.mem
        /\ IF o.ok
           THEN /\ live' = (AllocHandle(o.ptr) :> Entry(heap_layout_for(0)))
                /\ last' = Call("RawVec::new", "Ok", NoLayout, heap_layout_for(0), o.ptr, <<"allocate">>)
           ELSE /\ live' = live
                /\ last' = Call("RawVec::new", "Err", NoLayout, heap_layout_for(0), 0, <<"allocate">>)
    /\ metadata' = 0
    /\ UNCHANGED <<kind, store, allocKind, next, origin, dropped>>

\* a storage call with a layout the block was not allocated with
RawVec_misuse(op, new, calls) ==
    /\ last' = Call(op, "UB", heap_layout, new, RawVec_handle, calls)
    /\ UNCHANGED <<heap, mem, live, metadata>>

\* as_ref: the slice of len() elements at resolve(handle, heap_layout())
RawVec_as_ref ==
    /\ kind = "vec" /\ ~Halted
    /\ DOMAIN live # {}
    /\ IF Fits(heap, RawVec_handle, heap_layout)
       THEN /\ last' = Call("as_ref", "Ok", heap_layout, NoLayout,
                            AllocStorage_resolve(RawVec_handle, heap_layout), <<>>)
            /\ UNCHANGED <<heap, mem, live, metadata>>
       ELSE RawVec_misuse("as_ref", NoLayout, <<>>)
    /\ UNCHANGED <<kind, store, allocKind, next, origin, dropped>>

\* as_mut, and a write of the whole slice through it
RawVec_as_mut(v) ==
    /\ kind = "vec" /\ ~Halted
    /\ DOMAIN live # {}
    /\ IF Fits(heap, RawVec_handle, heap_layout)
       THEN LET ptr == AllocStorage_resolve_mut(RawVec_handle, heap_layout)
                bytes == Pattern(v, heap_layout.size)
            IN /\ mem' = WriteMem(mem, ptr, bytes)
               /\ live' = [live EXCEPT ![RawVec_handle] =
                              [layout |-> heap_layout, wrote |-> TRUE, data |-> bytes]]
               /\ last' = Call("as_mut", "Ok", heap_layout, NoLayout, ptr, <<>>)
               /\ UNCHANGED <<heap, metadata>>
       ELSE RawVec_misuse("as_mut", NoLayout, <<>>)
    /\ UNCHANGED <<kind, store, allocKind, next, origin, dropped>>

\* faulty variant: the handle is replaced but the length is not recorded
RawVec_grow_to_keeps_len(new_len) ==
    /\ kind = "vec" /\ ~Halted
    /\ DOMAIN live # {}
    /\ IF new_len <= RawVec_len
       THEN /\ last' = Call("grow_to", "Ok", heap_layout, heap_layout_for(new_len),
                            RawVec_handle, <<>>)
            /\ UNCHANGED <<heap, mem, live, metadata>>
       ELSE IF ~Fits(heap, RawVec_handle, heap_layout)
       THEN RawVec_misuse("grow_to", heap_layout_for(new_len), <<"grow">>)
       ELSE \E o \in Allocator_grow(heap, mem, RawVec_handle, heap_layout_for(new_len)) :
            /\ heap' = o.heap
            /\ mem' = o.mem
            /\ IF o.ok
               THEN /\ live' = Rehandle(live, RawVec_handle, o.ptr, heap_layout_for(new_len))
                    /\ metadata' = metadata
                    /\ last' = Call("grow_to", "Ok", heap_layout, heap_layout_for(new_len),
                                    o.ptr, <<"grow">>)
               ELSE /\ UNCHANGED <<live, metadata>>
                    /\ last' = Call("grow_to", "Err", heap_layout, heap_layout_for(new_len),
                                    RawVec_handle, <<"grow">>)
    /\ UNCHANGED <<kind, store, allocKind, next, origin, dropped>>

\* grow_to: nothing to do when already long enough, else one grow of the storage
RawVec_grow_to(new_len) ==
    /\ kind = "vec" /\ ~Halted
    /\ DOMAIN live # {}
    /\ IF new_len <= RawVec_len
       THEN /\ last' = Call("grow_to", "Ok", heap_layout, heap_layout_for(new_len),
                            RawVec_handle, <<>>)
            /\ UNCHANGED <<heap, mem, live, metadata>>
       ELSE IF ~Fits(heap, RawVec_handle, heap_layout)
       THEN RawVec_misuse("grow_to", heap_layout_for(new_len), <<"grow">>)
       ELSE \E o \in Allocator_grow(heap, mem, RawVec_handle, heap_layout_for(new_len)) :
            /\ heap' = o.heap
            /\ mem' = o.mem
            /\ IF o.ok
               THEN /\ live' = Rehandle(live, RawVec_handle, o.ptr, heap_layout_for(new_len))
                    /\ metadata' = new_len
                    /\ last' = Call("grow_to", "Ok", heap_layout, heap_layout_for(new_len),
                                    o.ptr, <<"grow">>)
               ELSE /\ UNCHANGED <<live, metadata>>
                    /\ last' = Call("grow_to", "Err", heap_layout, heap_layout_for(new_len),
                                    RawVec_handle, <<"grow">>)
    /\ UNCHANGED <<kind, store, allocKind, next, origin, dropped>>

\* on success the handle is replaced; metadata is left as it was
RawVec_shrink_to(new_len) ==
    /\ kind = "vec" /\ ~Halted
    /\ DOMAIN live # {}
    /\ IF new_len >= RawVec_len
       THEN /\ last' = Call("shrink_to", "Ok", heap_layout, heap_layout_for(new_len),
                            RawVec_handle, <<>>)
            /\ UNCHANGED <<heap, mem, live, metadata>>
       ELSE IF ~Fits(heap, RawVec_handle, heap_layout)
       THEN RawVec_misuse("shrink_to", heap_layout_for(new_len), <<"shrink">>)
       ELSE \E o \in Allocator_shrink(heap, mem, RawVec_handle, heap_layout_for(new_len)) :
            /\ heap' = o.heap
            /\ mem' = o.mem
            /\ UNCHANGED metadata
            /\ IF o.ok
               THEN /\ live' = Rehandle(live, RawVec_handle, o.ptr, heap_layout_for(new_len))
                    /\ last' = Call("shrink_to", "Ok", heap_layout, heap_layout_for(new_len),
                                    o.ptr, <<"shrink">>)
               ELSE /\ UNCHANGED live
                    /\ last' = Call("shrink_to", "Err", heap_layout, heap_layout_for(new_len),
                                    RawVec_handle, <<"shrink">>)
    /\ UNCHANGED <<kind, store, allocKind, next, origin, dropped>>

\* Drop for RawVec: deallocate(handle, heap_layout())
RawVec_drop ==
    /\ kind = "vec" /\ ~Halted
    /\ DOMAIN live # {}
    /\ IF Fits(heap, RawVec_handle, heap_layout)
       THEN /\ heap' = Allocator_deallocate(heap, mem, RawVec_handle).heap
            /\ mem' = Allocator_deallocate(heap, mem, RawVec_handle).mem
            /\ live' = NoHandles
            /\ last' = Call("drop", "Ok", heap_layout, NoLayout, RawVec_handle, <<"deallocate">>)
            /\ UNCHANGED metadata
       ELSE RawVec_misuse("drop", NoLayout, <<"deallocate">>)
    /\ UNCHANGED <<kind, store, allocKind, next, origin, dropped>>

----------------------------------------------------------------------------
InitInline ==
    /\ kind = "inline"
    /\ store \in Stores
    /\ allocKind = "Global"
    /\ mem = (SelfAddr :> Fresh(store.size))
    /\ heap = << >>
    /\ next = 0
    /\ origin = "none"
    /\ dropped = << >>
    /\ metadata = 0
    /\ live = NoHandles
    /\ last = Call("new", "Ok", NoLayout, NoLayout, 0, <<>>)

InitAlloc ==
    /\ kind = "alloc"
    /\ store = WordLayout
    /\ allocKind \in {"Global", "NullAlloc"}
    /\ mem = << >>
    /\ heap = << >>
    /\ next = 0
    /\ origin = "none"
    /\ dropped = << >>
    /\ metadata = 0
    /\ live = NoHandles
    /\ last = Call("new", "Ok", NoLayout, NoLayout, 0, <<>>)

InitSmall ==
    /\ kind = "small"
    /\ store \in Stores
    /\ allocKind \in {"Global", "NullAlloc"}
    /\ mem = (SelfAddr :> Fresh(store.size))
    /\ heap = << >>
    /\ next = 0
    /\ origin = "none"
    /\ dropped = << >>
    /\ metadata = 0
    /\ live = NoHandles
    /\ last = Call("new", "Ok", NoLayout, NoLayout, 0, <<>>)

InitBorrowed ==
    /\ kind = "borrowed"
    /\ store \in Stores
    /\ allocKind = "Global"
    /\ mem = (PlaceAddr :> Fresh(store.size))
    /\ heap = << >>
    /\ next = 0
    /\ origin = "none"
    /\ dropped = << >>
    /\ metadata = 0
    /\ live = NoHandles
    /\ last = Call("new", "Ok", NoLayout, NoLayout, 0, <<>>)

\* the referenced value is initialized
InitRef ==
    /\ kind = "ref"
    /\ store \in Stores
    /\ allocKind = "Global"
    /\ mem = (PlaceAddr :> Pattern(0, store.size))
    /\ heap = << >>
    /\ next = 0
    /\ origin \in {"ref", "move_ref"}
    /\ dropped = << >>
    /\ metadata = 0
    /\ live = (RefStorageHandle :> Entry(store))
    /\ last = Call("new", "Ok", NoLayout, NoLayout, 0, <<>>)

InitArena ==
    /\ kind = "arena"
    /\ store \in Stores
    /\ allocKind = "Global"
    /\ mem = (SelfAddr :> Fresh(ArenaN * store.size))
    /\ heap = << >>
    /\ next = 0
    /\ origin = "none"
    /\ dropped = << >>
    /\ metadata = 0
    /\ live = NoHandles
    /\ last = Call("new", "Ok", NoLayout, NoLayout, 0, <<>>)

\* before a constructor has run there is no box: the word is uninit
InitDyn ==
    /\ kind = "dyn"
    /\ store \in Layouts
    /\ allocKind = "Global"
    /\ mem = (SelfAddr :> Fresh(WordSize))
    /\ heap = << >>
    /\ next = 0
    /\ origin = "none"
    /\ dropped = << >>
    /\ metadata = 0
    /\ live = NoHandles
    /\ last = Call("new", "Ok", NoLayout, NoLayout, 0, <<>>)

\* before RawVec::new has run
InitVec ==
    /\ kind = "vec"
    /\ store = WordLayout
    /\ allocKind = "Global"
    /\ mem = << >>
    /\ heap = << >>
    /\ next = 0
    /\ origin = "none"
    /\ dropped = << >>
    /\ metadata = 0
    /\ live = NoHandles
    /\ last = Call("new", "Ok", NoLayout, NoLayout, 0, <<>>)

\* Box<T, AllocStorage<A>> for a T of layout store, before it is built
InitBox ==
    /\ kind = "box"
    /\ store \in Stores
    /\ allocKind \in {"Global", "NullAlloc"}
    /\ mem = << >>
    /\ heap = << >>
    /\ next = 0
    /\ origin = "none"
    /\ dropped = << >>
    /\ metadata = 0
    /\ live = NoHandles
    /\ last = Call("new", "Ok", NoLayout, NoLayout, 0, <<>>)

Init ==
    \/ InitInline \/ InitAlloc \/ InitSmall \/ InitBorrowed
    \/ InitDyn \/ InitRef \/ InitArena \/ InitVec \/ InitBox

\* the client's reads and writes through the handles it holds
Client ==
    \/ \E h \in DOMAIN live : as_ptr(h)
    \/ \E h \in DOMAIN live, v \in Vals : as_mut_ptr(h, v)

OpsInline ==
    \/ \E meta \in Layouts : InlineStorage_create(meta)
    \/ \E h \in DOMAIN live : InlineStorage_destroy(h)

OpsAlloc ==
    \/ \E layout \in SliceLayouts : AllocStorage_allocate(layout)
    \/ \E h \in DOMAIN live : AllocStorage_deallocate(h)
    \/ \E h \in DOMAIN live, new \in SliceLayouts : AllocStorage_grow(h, new)
    \/ \E h \in DOMAIN live, new \in SliceLayouts : AllocStorage_shrink(h, new)
    \/ \E h \in DOMAIN live, new \in SliceLayouts : SliceStorage_grow(h, new)
    \/ \E h \in DOMAIN live, new \in SliceLayouts : SliceStorage_shrink(h, new)

OpsSmall ==
    \/ \E layout \in Layouts : SmallStorage_allocate(layout)
    \/ \E h \in DOMAIN live : SmallStorage_deallocate(h)
    \/ \E h \in DOMAIN live, new \in Layouts : SmallStorage_grow(h, new)
    \/ \E h \in DOMAIN live, new \in Layouts : SmallStorage_shrink(h, new)

OpsBorrowed ==
    \/ \E layout \in Layouts : BorrowedStorage_allocate(layout)
    \/ \E h \in DOMAIN live : BorrowedStorage_deallocate(h)
    \/ \E h \in DOMAIN live, new \in Layouts : BorrowedStorage_grow(h, new)
    \/ \E h \in DOMAIN live, new \in Layouts : BorrowedStorage_shrink(h, new)

OpsDyn ==
    \/ \E layout \in Layouts : DynStorage_allocate(layout)
    \/ \E h \in DOMAIN live : DynStorage_deallocate(h)
    \/ \E h \in DOMAIN live, new \in Layouts : DynStorage_grow(h, live[h].layout, new)
    \/ \E h \in DOMAIN live, new \in Layouts : DynStorage_shrink(h, live[h].layout, new)
    \/ \E v \in Vals : Box_inline(v)
    \/ \E ptr \in HeapAddrs, v \in Vals : Box_boxed(ptr, v)
    \/ \E v \in Vals : Box_take(v)
    \/ \E h \in DOMAIN live : Box_drop(h)

OpsRef ==
    \/ \E meta \in Layouts : RefStorage_create(meta)
    \/ \E h \in DOMAIN live : RefStorage_destroy(h)
    \/ \E h \in DOMAIN live : Box_drop(h)

OpsArena ==
    \/ OneUseArenaStorage_create
    \/ \E h \in DOMAIN live : OneUseArenaStorage_destroy(h)

OpsVec ==
    \/ RawVec_new
    \/ RawVec_as_ref
    \/ \E v \in Vals : RawVec_as_mut(v)
    \/ \E new_len \in Lens : RawVec_grow_to(new_len)
    \/ \E new_len \in Lens : RawVec_shrink_to(new_len)
    \/ RawVec_drop

OpsBox ==
    \/ RawBox_new
    \/ \E v \in Vals : Box_new_in(v)
    \/ \E h \in DOMAIN live : Box_into_raw_parts(h)
    \/ \E h \in DOMAIN live : Box_from_raw_parts(h)
    \/ \E h \in DOMAIN live : Box_drop(h)

Next ==
    \/ OpsInline \/ OpsAlloc \/ OpsSmall \/ OpsBorrowed
    \/ OpsDyn \/ OpsRef \/ OpsArena \/ OpsVec \/ OpsBox
    \/ Client

\* every backend
Spec == Init /\ [][Next]_vars

\* one backend each
NextInline == OpsInline \/ Client
NextSmall == OpsSmall \/ Client
NextDyn == OpsDyn \/ Client
NextRef == OpsRef \/ Client
NextAlloc == OpsAlloc \/ Client
NextVec == OpsVec
NextArena == OpsArena \/ Client
NextBox == OpsBox \/ Client

SpecInline == InitInline /\ [][NextInline]_vars
SpecSmall == InitSmall /\ [][NextSmall]_vars
SpecDyn == InitDyn /\ [][NextDyn]_vars
SpecRef == InitRef /\ [][NextRef]_vars
SpecAlloc == InitAlloc /\ [][NextAlloc]_vars
SpecVec == InitVec /\ [][NextVec]_vars
SpecArena == InitArena /\ [][NextArena]_vars
SpecBox == InitBox /\ [][NextBox]_vars

----------------------------------------------------------------------------
(* Properties. *)

Resizes == {"grow", "shrink", "default grow", "default shrink"}
Creates == {"create", "allocate"}

\* the region [p, p + n) lies outside the storage's own buffer
OutsideSelf(p, n) == p + n <= SelfAddr \/ SelfAddr + Len(mem[SelfAddr]) <= p

Prefix(bytes, n) == [i \in 1..n |-> bytes[i]]

\* C1: InlineStorage create for a layout (s, a) on a buffer of layout (S, A)
\* returns a handle if and only if s <= S and a <= A, and fails with
\* AllocError otherwise.
C1_InlineCreateIffFits ==
    (kind = "inline" /\ last.op = "create") =>
        /\ last.res \in {"Ok", "Err"}
        /\ last.res = "Ok" <=>
              (last.new.size <= store.size /\ last.new.align <= store.align)
        /\ last.res = "Ok" => DOMAIN live = {InlineStorageHandle(last.new)}
        /\ last.res = "Err" => DOMAIN live = {}

\* an 8-byte/8-align buffer has refused a 16-byte request
C1_Witness ==
    /\ kind = "inline" /\ store = Layout(8, 8)
    /\ last.op = "create" /\ last.new = Layout(16, 8) /\ last.res = "Err"

\* C2 (as claimed): whenever create/allocate, grow or shrink of AllocStorage,
\* of the default MultipleStorage resize or of SmallStorage returns failure,
\* memory, the allocator's live regions and the valid handles are as before.
C2_FailureChangesNothing ==
    [][(kind \in {"alloc", "small"} /\ last'.op \in Creates \cup Resizes
            /\ last'.res = "Err")
        => (mem' = mem /\ heap' = heap /\ live' = live)]_vars

\* C3 (as claimed): for every layout that does not fit the inline buffer and
\* every buffer shape, SmallStorage allocate succeeds if and only if the
\* allocator's allocation succeeded (a region was added to the heap).
C3_AllocateIffAllocatorEveryBuffer ==
    [][(kind = "small" /\ last'.op = "allocate" /\ ~layout_fits_in(last'.new, store))
        => (last'.res = "Ok" <=> DOMAIN heap' # DOMAIN heap)]_vars

\* C3 (amended): for every layout that does not fit the inline buffer and
\* every buffer shape, SmallStorage allocate succeeds if and only if the
\* allocator's allocation succeeded and the inline buffer can hold the heap
\* handle; after success resolve returns the new heap region, outside the
\* inline buffer.
C3_AllocateIffAllocator ==
    [][(kind = "small" /\ last'.op = "allocate" /\ ~layout_fits_in(last'.new, store))
        => /\ last'.res = "Ok" <=>
                (DOMAIN heap' # DOMAIN heap /\ layout_fits_in(OUTLINE_HANDLE_LAYOUT, store))
           /\ last'.res = "Ok" =>
                LET p == Resolve(mem', UnitHandle, last'.new)
                IN /\ p \in DOMAIN heap' \ DOMAIN heap
                   /\ heap'[p] = last'.new
                   /\ OutsideSelf(p, last'.new.size)]_vars

\* a usize buffer: a 16-byte payload was allocated outline
C3_Witness ==
    /\ kind = "small" /\ store = WordLayout
    /\ last.op = "allocate" /\ last.new = Layout(16, 8) /\ last.res = "Ok"
    /\ Resolve(mem, UnitHandle, last.new) \in DOMAIN heap

\* C4: a successful grow of SmallStorage from a layout that fits inline,
\* whose bytes were written through resolve_mut, to one that does not fit
\* leaves resolve(new layout) at a heap region whose first old.size bytes
\* are the bytes written before the grow.
C4_PromotionKeepsBytes ==
    [][(kind = "small" /\ last'.op = "grow" /\ last'.res = "Ok"
            /\ layout_fits_in(last'.old, store) /\ ~layout_fits_in(last'.new, store)
            /\ UnitHandle \in DOMAIN live /\ live[UnitHandle].wrote)
        => LET p == Resolve(mem', UnitHandle, last'.new)
           IN /\ p \in DOMAIN heap'
              /\ heap'[p] = last'.new
              /\ Prefix(ReadMem(mem', p, last'.new.size), last'.old.size)
                    = live[UnitHandle].data]_vars

\* a written 8-byte payload was promoted to a 16-byte heap region
C4_Witness ==
    /\ kind = "small" /\ store = WordLayout
    /\ last.op = "grow" /\ last.res = "Ok"
    /\ last.old = Layout(8, 8) /\ last.new = Layout(16, 8)
    /\ Prefix(Payload(mem, UnitHandle, last.new), 8) = Pattern(2, 8)
    /\ Resolve(mem, UnitHandle, last.new) \in DOMAIN heap

\* C5: for every backend, the bytes last written through the pointer from
\* resolve_mut(handle) are the bytes read through the pointer from
\* resolve(handle), as long as the handle was not created, destroyed or
\* resized in between.
C5_RoundTrip ==
    \A h \in DOMAIN live :
        live[h].wrote => Payload(mem, h, live[h].layout) = live[h].data

\* an outline payload of a SmallStorage was written and is being read
C5_Witness ==
    /\ kind = "small" /\ last.op = "resolve"
    /\ ~layout_fits_in(last.old, store)
    /\ live[UnitHandle].wrote
    /\ Payload(mem, UnitHandle, last.old) = Pattern(2, last.old.size)

\* C6: on a SmallStorage, allocate, resolve, resolve_mut and deallocate with
\* a layout that fits the inline buffer succeed without any call of the
\* wrapped allocator, also when that allocator is NullAlloc.
C6_InlineNeverCallsAllocator ==
    (kind = "small" /\ last.op \in {"allocate", "resolve", "resolve_mut", "deallocate"}
        /\ (LET layout == IF last.op = "allocate" THEN last.new ELSE last.old
            IN layout.size <= store.size /\ layout.align <= store.align))
    => (last.calls = <<>> /\ last.res = "Ok")

\* over NullAlloc a usize payload was created, written and dropped
C6_Witness ==
    /\ kind = "small" /\ allocKind = "NullAlloc" /\ store = WordLayout
    /\ last.op = "deallocate" /\ last.old = WordLayout /\ last.res = "Ok"
    /\ ReadMem(mem, SelfAddr, WordSize) = Pattern(1, WordSize)
    /\ heap = << >>

\* C7: over an allocator that always fails, SmallStorage allocate for a
\* layout that does not fit the inline buffer fails with AllocError after
\* exactly one allocate call and no other allocator call, and leaves the
\* inline buffer (and all memory) unmodified.
C7_FailedOutlineAllocate ==
    [][(kind = "small" /\ allocKind = "NullAlloc" /\ last'.op = "allocate"
            /\ ~(last'.new.size <= store.size /\ last'.new.align <= store.align))
        => /\ last'.res = "Err"
           /\ last'.calls = <<"allocate">>
           /\ mem' = mem /\ heap' = heap /\ live' = live]_vars

\* a written usize buffer has refused a 16-byte payload over NullAlloc
C7_Witness ==
    /\ kind = "small" /\ allocKind = "NullAlloc" /\ store = WordLayout
    /\ last.op = "allocate" /\ last.new = Layout(16, 8) /\ last.res = "Err"
    /\ ReadMem(mem, SelfAddr, WordSize) = Pattern(1, WordSize)

\* C8 (as claimed): SmallStorage shrink from a layout that does not fit
\* inline to one that fits returns success or AllocError; it does not panic.
C8_DemotionReturns ==
    (kind = "small" /\ last.op = "shrink"
        /\ ~layout_fits_in(last.old, store) /\ layout_fits_in(last.new, store))
    => last.res \in {"Ok", "Err"}

\* C9: DynStorage allocate, grow and shrink fail with AllocError whatever
\* the arguments and the state, and change neither the storage word nor any
\* other memory, so the handle resolves to the same payload as before.
C9_DynNeverAllocates ==
    [][(kind = "dyn" /\ last'.op \in {"allocate", "grow", "shrink"})
        => /\ last'.res = "Err"
           /\ ReadMem(mem', SelfAddr, WordSize) = ReadMem(mem, SelfAddr, WordSize)
           /\ live' = live
           /\ \A h \in DOMAIN live :
                /\ Resolve(mem', h, live[h].layout) = Resolve(mem, h, live[h].layout)
                /\ Payload(mem', h, live[h].layout) = Payload(mem, h, live[h].layout)]_vars

\* a box of a 16-byte heap payload has refused to grow and still resolves
\* to the payload
C9_Witness ==
    /\ kind = "dyn" /\ origin = "boxed" /\ store = Layout(16, 8)
    /\ last.op = "grow" /\ last.res = "Err"
    /\ UnitHandle \in DOMAIN live
    /\ Resolve(mem, UnitHandle, store) \in DOMAIN heap
    /\ Payload(mem, UnitHandle, store) = live[UnitHandle].data

\* C10: DynStorage resolve and resolve_mut return the address of the storage
\* word when the layout fits in a usize (size and align), and otherwise the
\* address that was stored in the word: the heap payload of Box::boxed or
\* the place of Box::take.  Nothing else decides, and the two agree.
C10_DynResolve ==
    (kind = "dyn" /\ last.op \in {"resolve", "resolve_mut"}) =>
        /\ last.ret =
              IF store.size <= WordSize /\ store.align <= WordSize THEN SelfAddr
              ELSE IF origin = "boxed" THEN CHOOSE p \in DOMAIN heap : TRUE
              ELSE PlaceAddr
        /\ DynStorage_resolve(mem, last.old) = DynStorage_resolve_mut(mem, last.old)

\* a box taken from a 16-byte place resolves to the place
C10_Witness ==
    /\ kind = "dyn" /\ origin = "take" /\ store = Layout(16, 8)
    /\ last.op = "resolve" /\ last.ret = PlaceAddr

\* C11 (as claimed): Box::boxed of a payload that fits in a word copies it
\* into the word and gives the heap region back with one deallocate call;
\* of a payload that does not fit, it keeps the heap pointer in the word
\* and resolve returns the heap address.
C11_BoxedFreesSmallPayload ==
    (kind = "dyn" /\ last.op = "boxed") =>
        IF layout_fits_in(store, WordLayout)
        THEN /\ ReadMem(mem, SelfAddr, store.size) = live[UnitHandle].data
             /\ last.ret \notin DOMAIN heap
             /\ last.calls = <<"deallocate">>
        ELSE /\ ReadMem(mem, SelfAddr, WordSize) = EncodePtr(last.ret)
             /\ Resolve(mem, UnitHandle, store) = last.ret
             /\ last.ret \in DOMAIN heap

\* C12: the drop of a box that Box::boxed built from a payload that does not
\* fit in a word runs the destructor once, on the heap payload, calls no
\* allocator and leaves the heap region allocated.
C12_BoxedDropLeaks ==
    [][(kind = "dyn" /\ origin = "boxed" /\ ~layout_fits_in(store, WordLayout)
            /\ last'.op = "drop")
        => LET p == DecodePtr(ReadMem(mem, SelfAddr, WordSize))
           IN /\ dropped = << >> /\ dropped' = <<p>>
              /\ p \in DOMAIN heap /\ heap[p] = store
              /\ heap' = heap /\ mem' = mem
              /\ last'.calls = << >>]_vars

\* a box of a 16-byte heap payload was dropped and its region is still live
C12_Witness ==
    /\ kind = "dyn" /\ origin = "boxed" /\ store = Layout(16, 8)
    /\ last.op = "drop"
    /\ Len(dropped) = 1 /\ dropped[1] \in DOMAIN heap

\* C13 (as claimed): Box::take stores the address of the referenced value
\* in the word for every payload layout, so resolve returns that address;
\* no allocator is called, and the drop runs the destructor once.
C13_TakeStoresAddressEveryLayout ==
    /\ (kind = "dyn" /\ last.op = "take") =>
            /\ ReadMem(mem, SelfAddr, WordSize) = EncodePtr(PlaceAddr)
            /\ Resolve(mem, UnitHandle, store) = PlaceAddr
            /\ last.calls = << >> /\ heap = << >>
    /\ (kind = "dyn" /\ origin = "take" /\ last.op = "drop") =>
            /\ dropped = <<PlaceAddr>>
            /\ last.calls = << >> /\ heap = << >>

\* C13 (amended): Box::take stores the address of the referenced value in
\* the word when the payload does not fit in a word, and resolve returns
\* that address; when the payload fits, its bytes are copied into the word
\* and resolve returns the address of the word.  No allocator is called by
\* the construction or the drop, and the drop runs the destructor once, on
\* the payload resolve returns.
C13_TakeStoresAddress ==
    /\ (kind = "dyn" /\ last.op = "take") =>
            /\ IF layout_fits_in(store, WordLayout)
               THEN /\ ReadMem(mem, SelfAddr, store.size) = ReadMem(mem, PlaceAddr, store.size)
                    /\ Resolve(mem, UnitHandle, store) = SelfAddr
               ELSE /\ ReadMem(mem, SelfAddr, WordSize) = EncodePtr(PlaceAddr)
                    /\ Resolve(mem, UnitHandle, store) = PlaceAddr
            /\ Payload(mem, UnitHandle, store) = live[UnitHandle].data
            /\ last.calls = << >> /\ heap = << >>
    /\ (kind = "dyn" /\ origin = "take" /\ last.op = "drop") =>
            /\ dropped = <<IF layout_fits_in(store, WordLayout) THEN SelfAddr ELSE PlaceAddr>>
            /\ last.calls = << >> /\ heap = << >>

\* a box taken from a 16-byte place was dropped: the destructor ran on the place
C13_Witness ==
    /\ kind = "dyn" /\ origin = "take" /\ store = Layout(16, 8)
    /\ last.op = "drop" /\ dropped = <<PlaceAddr>>

\* C14: the drop of a box over RefStorage<ManuallyDrop<T>> runs the
\* destructor once, on the referenced place, frees no memory and calls no
\* allocator.
C14_MoveRefDrop ==
    [][(kind = "ref" /\ origin = "move_ref" /\ last'.op = "drop")
        => /\ dropped = << >> /\ dropped' = <<PlaceAddr>>
           /\ mem' = mem /\ heap' = heap
           /\ PlaceAddr \in DOMAIN mem'
           /\ last'.calls = << >>]_vars

\* a move-reference was written through and dropped
C14_Witness ==
    /\ kind = "ref" /\ origin = "move_ref"
    /\ last.op = "drop" /\ dropped = <<PlaceAddr>>
    /\ ReadMem(mem, PlaceAddr, store.size) = Pattern(2, store.size)

\* C15: on both RefStorage variants every create fails with AllocError,
\* every destroy changes nothing, and the one handle keeps resolving to
\* the wrapped reference.
C15_RefStorageFrame ==
    [][kind = "ref"
        => /\ last'.op = "create" =>
                (last'.res = "Err" /\ mem' = mem /\ heap' = heap /\ live' = live)
           /\ last'.op = "destroy" =>
                (mem' = mem /\ heap' = heap /\ live' = live)
           /\ last'.op # "drop" => DOMAIN live' = {RefStorageHandle}
           /\ \A h \in DOMAIN live' :
                /\ Resolve(mem', h, live'[h].layout) = PlaceAddr
                /\ ResolveMut(mem', h, live'[h].layout) = PlaceAddr]_vars

\* a written plain reference has survived a destroy
C15_Witness ==
    /\ kind = "ref" /\ origin = "ref"
    /\ last.op = "destroy"
    /\ RefStorageHandle \in DOMAIN live /\ live[RefStorageHandle].wrote
    /\ Payload(mem, RefStorageHandle, store) = live[RefStorageHandle].data

\* C16: OneUseArenaStorage create succeeds while fewer than N handles were
\* issued and fails with AllocError afterwards; destroy never makes a slot
\* available again; the k-th successful create returns index k, and the
\* valid handles resolve to pairwise disjoint slots of the buffer.
C16_ArenaOneUse ==
    [][kind = "arena"
        => /\ last'.op = "create" =>
                /\ last'.res = (IF next < ArenaN THEN "Ok" ELSE "Err")
                /\ last'.res = "Ok" =>
                      /\ next' = next + 1
                      /\ OneUseArenaStorageHandle(next) \notin DOMAIN live
                      /\ DOMAIN live' = DOMAIN live \cup {OneUseArenaStorageHandle(next)}
                      /\ last'.ret = next
                /\ last'.res = "Err" => (next' = next /\ live' = live)
           /\ last'.op = "destroy" => next' = next
           /\ next' >= next /\ next' <= ArenaN
           /\ \A h1 \in DOMAIN live' :
                /\ h1.index < next'
                /\ Resolve(mem', h1, store) = ResolveMut(mem', h1, store)
                /\ Resolve(mem', h1, store) >= SelfAddr
                /\ Resolve(mem', h1, store) + store.size <= SelfAddr + Len(mem'[SelfAddr])
                /\ \A h2 \in DOMAIN live' \ {h1} :
                      \/ Resolve(mem', h1, store) + store.size <= Resolve(mem', h2, store)
                      \/ Resolve(mem', h2, store) + store.size <= Resolve(mem', h1, store)]_vars

\* every slot was issued, one handle was destroyed, and create has failed
C16_Witness ==
    /\ kind = "arena" /\ next = ArenaN
    /\ last.op = "create" /\ last.res = "Err"
    /\ Cardinality(DOMAIN live) < ArenaN

\* the handles of live other than h keep their entry, their region and its bytes
OthersUntouched(h) ==
    \A g \in DOMAIN live \ {h} :
        /\ g \in DOMAIN live' /\ live'[g] = live[g]
        /\ Resolve(mem', g, live[g].layout) = Resolve(mem, g, live[g].layout)
        /\ Resolve(mem, g, live[g].layout) \in DOMAIN heap'
        /\ heap'[Resolve(mem, g, live[g].layout)] = heap[Resolve(mem, g, live[g].layout)]
        /\ mem'[Resolve(mem, g, live[g].layout)] = mem[Resolve(mem, g, live[g].layout)]

\* C17: AllocStorage allocate makes exactly one Allocator::allocate call and
\* returns a handle holding the pointer it got; deallocate makes exactly one
\* Allocator::deallocate call for the handle's pointer and layout; every
\* live handle resolves to its own live region, and allocating or
\* deallocating one handle leaves the other handles' regions and bytes alone.
C17_AllocStorageFrame ==
    [][kind = "alloc"
        => /\ last'.op = "allocate" =>
                /\ last'.calls = <<"allocate">>
                /\ last'.res \in {"Ok", "Err"}
                /\ last'.res = "Ok" =>
                      LET p == last'.ret
                      IN /\ p \notin DOMAIN heap
                         /\ DOMAIN heap' = DOMAIN heap \cup {p}
                         /\ heap'[p] = last'.new
                         /\ DOMAIN live' = DOMAIN live \cup {AllocHandle(p)}
                         /\ Resolve(mem', AllocHandle(p), last'.new) = p
                /\ last'.res = "Err" => (heap' = heap /\ mem' = mem /\ live' = live)
                /\ OthersUntouched(AllocHandle(last'.ret))
           /\ last'.op = "deallocate" =>
                LET p == last'.ret
                IN /\ last'.res = "Ok"
                   /\ last'.calls = <<"deallocate">>
                   /\ p \in DOMAIN heap /\ heap[p] = last'.old
                   /\ DOMAIN heap' = DOMAIN heap \ {p}
                   /\ DOMAIN live' = DOMAIN live \ {AllocHandle(p)}
                   /\ OthersUntouched(AllocHandle(p))
           /\ \A h \in DOMAIN live' :
                /\ Resolve(mem', h, live'[h].layout) \in DOMAIN heap'
                /\ heap'[Resolve(mem', h, live'[h].layout)] = live'[h].layout
                /\ \A g \in DOMAIN live' \ {h} :
                      Resolve(mem', g, live'[g].layout) # Resolve(mem', h, live'[h].layout)]_vars

\* one of two live handles was deallocated, the other still holds its bytes
C17_Witness ==
    /\ kind = "alloc" /\ last.op = "deallocate" /\ last.res = "Ok"
    /\ \E h \in DOMAIN live :
        /\ live[h].wrote
        /\ Payload(mem, h, live[h].layout) = Pattern(2, live[h].layout.size)
        /\ last.ret # h

\* C18 (as claimed): in AllocStorage, a PinningStorage, every object stays
\* at its address, in a region that stays allocated to it, from the creation
\* of its handle until deallocate (destroy) is called on that handle,
\* whatever allocate, resolve, grow and shrink calls are made meanwhile.
C18_PinnedUntilDestroyed ==
    [][kind = "alloc"
        => \A h \in DOMAIN live :
            \/ last'.op = "deallocate" /\ last'.ret = h
            \/ last'.op \in {"default grow", "default shrink"}
                    /\ last'.calls = <<"allocate", "deallocate">>
                    /\ h \notin DOMAIN live'
            \/ /\ h \in DOMAIN live'
               /\ Resolve(mem', h, live'[h].layout) = Resolve(mem, h, live[h].layout)
               /\ Resolve(mem, h, live[h].layout) \in DOMAIN heap']_vars

\* C19: the default grow and shrink of a MultipleStorage, on success, return
\* the handle of a newly created region of the new layout whose first
\* min(old, new) bytes are the old region's, the old handle having been
\* destroyed once; when the create fails they return the failure and
\* nothing has been read, copied or destroyed.
C19_DefaultResize ==
    [][(kind = "alloc" /\ last'.op \in {"default grow", "default shrink"})
        => IF last'.res = "Ok"
           THEN \E old \in DOMAIN live \ DOMAIN live' :
                  LET new == last'.ret
                      n == IF last'.old.size <= last'.new.size
                           THEN last'.old.size ELSE last'.new.size
                  IN /\ live[old].layout = last'.old
                     /\ new \notin DOMAIN heap /\ new \in DOMAIN heap'
                     /\ heap'[new] = last'.new
                     /\ DOMAIN live' = (DOMAIN live \ {old}) \cup {AllocHandle(new)}
                     /\ live'[AllocHandle(new)].layout = last'.new
                     /\ Prefix(ReadMem(mem', new, n), n) = Prefix(ReadMem(mem, old, n), n)
                     /\ old \in DOMAIN heap /\ old \notin DOMAIN heap'
                     /\ DOMAIN heap' = (DOMAIN heap \ {old}) \cup {new}
                     /\ last'.calls = <<"allocate", "deallocate">>
                     /\ OthersUntouched(old)
           ELSE /\ last'.res = "Err"
                /\ last'.calls = <<"allocate">>
                /\ mem' = mem /\ heap' = heap /\ live' = live]_vars

\* a written 8-byte slice was grown to 16 bytes by the default grow
C19_Witness ==
    /\ kind = "alloc" /\ last.op = "default grow" /\ last.res = "Ok"
    /\ last.old = Layout(8, 8) /\ last.new = Layout(16, 8)
    /\ Prefix(ReadMem(mem, last.ret, 16), 8) = Pattern(2, 8)

\* C20 (as claimed): RawVec::shrink_to(new_len) with new_len >= len()
\* changes nothing and returns Ok; otherwise, on success len() is new_len,
\* and on failure len() and the handle are as before.
C20_ShrinkToSetsLen ==
    [][(kind = "vec" /\ last'.op = "shrink_to" /\ last'.res \in {"Ok", "Err"})
        => LET new_len == last'.new.size \div WordSize
           IN IF new_len >= metadata
              THEN /\ last'.res = "Ok"
                   /\ metadata' = metadata /\ live' = live /\ heap' = heap /\ mem' = mem
              ELSE /\ last'.res = "Ok" => metadata' = new_len
                   /\ last'.res = "Err" =>
                        (metadata' = metadata /\ live' = live /\ heap' = heap /\ mem' = mem)]_vars

----------------------------------------------------------------------------
\* C21: RawVec::grow_to(new_len) with new_len <= len() returns Ok, makes no
\* storage call and changes nothing; otherwise it calls the storage's grow
\* once with heap_layout() and the layout for new_len, and on success len()
\* is new_len and the handle is the one grow returned, while on failure
\* len() and the handle are as before.
C21_GrowTo ==
    [][(kind = "vec" /\ last'.op = "grow_to") =>
        LET new_len == last'.new.size \div WordSize
        IN IF new_len <= RawVec_len
           THEN /\ last'.res = "Ok"
                /\ last'.calls = << >>
                /\ UNCHANGED <<heap, mem, live, metadata>>
           ELSE /\ last'.calls = <<"grow">>
                /\ last'.old = heap_layout
                /\ last'.new = heap_layout_for(new_len)
                /\ last'.res = "Ok" =>
                      /\ metadata' = new_len
                      /\ DOMAIN live' = {AllocHandle(last'.ret)}
                      /\ live'[AllocHandle(last'.ret)].layout = heap_layout_for(new_len)
                      /\ Fits(heap', last'.ret, heap_layout_for(new_len))
                /\ last'.res = "Err" => UNCHANGED <<metadata, live>>
    ]_vars

\* a grow_to that reached the storage and succeeded
C21_Witness ==
    /\ kind = "vec"
    /\ last.op = "grow_to" /\ last.res = "Ok" /\ last.calls = <<"grow">>
    /\ RawVec_len = MaxLen
    /\ Fits(heap, RawVec_handle, heap_layout)

----------------------------------------------------------------------------
(* Footprints.  A struct is laid out from its fields alone: they are       *)
(* placed in decreasing alignment, so its size is the sum of their sizes   *)
(* rounded up to the largest alignment.                                    *)

Zst == Layout(0, 1)

RECURSIVE SumOfSizes(_)
SumOfSizes(fields) ==
    IF fields = << >> THEN 0 ELSE Head(fields).size + SumOfSizes(Tail(fields))

MaxAlign(fields) ==
    CHOOSE a \in {1} \cup {fields[i].align : i \in DOMAIN fields} :
        \A i \in DOMAIN fields : fields[i].align <= a

RoundUp(n, a) == ((n + a - 1) \div a) * a

\* faulty variant: a word in front of the fields tells the variants apart
struct_layout_tagged(fields) ==
    Layout(RoundUp(WordSize + SumOfSizes(fields), MaxAlign(<<WordLayout>> \o fields)),
           MaxAlign(<<WordLayout>> \o fields))

struct_layout(fields) ==
    Layout(RoundUp(SumOfSizes(fields), MaxAlign(fields)), MaxAlign(fields))

\* <T as Pointee>::Metadata: () for a sized T, the vtable pointer for dyn Trait
UnitMetadata == Zst
DynMetadata == WordLayout
\* std's Box<dyn Trait>: the data pointer and the vtable pointer
StdBoxDyn == struct_layout(<<WordLayout, DynMetadata>>)

\* Global and NullAlloc are unit structs
Allocator_layout == Zst
InlineStorage_layout == struct_layout(<<store>>)
AllocStorage_layout == struct_layout(<<Allocator_layout>>)
SmallStorage_layout == struct_layout(<<InlineStorage_layout, AllocStorage_layout>>)
BorrowedStorage_layout == struct_layout(<<WordLayout>>)
RefStorage_layout == struct_layout(<<WordLayout>>)
DynStorage_layout == struct_layout(<<WordLayout, Zst>>)
OneUseArenaStorage_layout ==
    struct_layout(<<Layout(ArenaN * store.size, store.align), WordLayout>>)

Storage_layout ==
    CASE kind = "inline" -> InlineStorage_layout
      [] kind \in {"alloc", "vec", "box"} -> AllocStorage_layout
      [] kind = "small" -> SmallStorage_layout
      [] kind = "borrowed" -> BorrowedStorage_layout
      [] kind = "ref" -> RefStorage_layout
      [] kind = "dyn" -> DynStorage_layout
      [] kind = "arena" -> OneUseArenaStorage_layout

\* S::Handle: a pointer (AllocHandle), an index (arena), the metadata
\* (InlineStorageHandle), or a unit
Handle_layout(meta) ==
    CASE kind \in {"alloc", "vec", "box", "arena"} -> struct_layout(<<WordLayout>>)
      [] kind = "inline" -> struct_layout(<<meta>>)
      [] kind \in {"small", "borrowed", "ref", "dyn"} -> Zst

\* RawBox { handle, metadata, storage }
RawBox_layout(meta) == struct_layout(<<Handle_layout(meta), meta, Storage_layout>>)

----------------------------------------------------------------------------
\* C23: SmallStorage grow and shrink between two layouts that both do not
\* fit inline forward the resize to the heap storage once and return the
\* same unit handle; on success the heap handle in the inline buffer is the
\* one the heap storage returned, on failure it is the one it was.
C23_OutlineResize ==
    [][(kind = "small" /\ last'.op \in {"grow", "shrink"}
        /\ ~InlineStorage_fits(last'.old) /\ ~InlineStorage_fits(last'.new)) =>
        /\ last'.res \in {"Ok", "Err"}
        /\ last'.calls = <<last'.op>>
        /\ DOMAIN live' = {UnitHandle}
        /\ last'.res = "Ok" =>
             /\ live'[UnitHandle].layout = last'.new
             /\ Fits(heap', StoredHandle(mem'), last'.new)
             /\ DOMAIN heap' = (DOMAIN heap \ {StoredHandle(mem)}) \cup {StoredHandle(mem')}
             /\ IF last'.op = "grow"
                THEN Prefix(mem'[StoredHandle(mem')], last'.old.size)
                       = mem[StoredHandle(mem)]
                ELSE mem'[StoredHandle(mem')]
                       = Prefix(mem[StoredHandle(mem)], last'.new.size)
        /\ last'.res = "Err" =>
             /\ StoredHandle(mem') = StoredHandle(mem)
             /\ UNCHANGED <<heap, mem, live>>
    ]_vars

\* a forwarded grow after which the buffer holds the handle of the new region
C23_Witness ==
    /\ kind = "small"
    /\ last.op = "grow" /\ last.res = "Ok" /\ last.calls = <<"grow">>
    /\ ~InlineStorage_fits(last.old) /\ ~InlineStorage_fits(last.new)
    /\ last.old # last.new
    /\ Fits(heap, StoredHandle(mem), last.new)

----------------------------------------------------------------------------
\* C24: in SmallStorage grow, for every old and new layout with new size >=
\* old size and any alignments, "old does not fit inline, new fits inline"
\* never occurs, so the arm marked unreachable is never executed.
C24_GrowUnreachable ==
    (kind = "small" /\ last.op = "grow") =>
        /\ ~(~InlineStorage_fits(last.old) /\ InlineStorage_fits(last.new))
        /\ last.res # "UB"

----------------------------------------------------------------------------
\* C25: SmallStorage promotion (grow from a layout that fits inline to one
\* that does not) allocates the heap region, copies old_layout.size bytes
\* out of the inline buffer, releases the inline slot and only then writes
\* the heap handle into the buffer: the region receives the bytes the
\* buffer held before the call, never the handle, and a failed heap
\* allocation modifies nothing.
C25_PromotionOrder ==
    [][(kind = "small" /\ last'.op = "grow"
        /\ InlineStorage_fits(last'.old) /\ ~InlineStorage_fits(last'.new)) =>
        /\ last'.res \in {"Ok", "Err"}
        /\ last'.res = "Ok" =>
             LET p == StoredHandle(mem')
             IN /\ last'.calls = <<"allocate">>
                /\ p \notin DOMAIN heap
                /\ heap' = (p :> last'.new) @@ heap
                /\ Prefix(mem'[p], last'.old.size) = Prefix(mem[SelfAddr], last'.old.size)
                /\ \A i \in (last'.old.size + 1)..last'.new.size : mem'[p][i] = Uninit
                /\ Prefix(mem'[SelfAddr], WordSize) = EncodePtr(p)
                /\ \A i \in (WordSize + 1)..store.size : mem'[SelfAddr][i] = mem[SelfAddr][i]
                /\ DOMAIN live' = {UnitHandle} /\ live'[UnitHandle].layout = last'.new
        /\ last'.res = "Err" => UNCHANGED <<heap, mem, live>>
    ]_vars

\* a promotion of a buffer the client had written, now holding the handle
C25_Witness ==
    /\ kind = "small"
    /\ last.op = "grow" /\ last.res = "Ok" /\ last.calls = <<"allocate">>
    /\ InlineStorage_fits(last.old) /\ ~InlineStorage_fits(last.new)
    /\ \E v \in Vals :
         Prefix(mem[StoredHandle(mem)], last.old.size) = Pattern(v, last.old.size)
    /\ Prefix(mem[SelfAddr], WordSize) = EncodePtr(StoredHandle(mem))

----------------------------------------------------------------------------
\* the wrapped allocator holds exactly the region of a live layout that does
\* not fit inline, named by the handle in the buffer, and none otherwise
SmallRegions ==
    IF DOMAIN live # {} /\ ~InlineStorage_fits(live[UnitHandle].layout)
    THEN /\ Cardinality(DOMAIN heap) = 1
         /\ Fits(heap, StoredHandle(mem), live[UnitHandle].layout)
    ELSE heap = << >>

\* deallocate of a layout that does not fit inline: one call of the
\* allocator's deallocate, on the stored pointer, with the live layout
SmallDeallocatesOnce ==
    (last'.op = "deallocate" /\ ~InlineStorage_fits(last'.old)) =>
        /\ last'.calls = <<"deallocate">>
        /\ last'.ret = StoredHandle(mem)
        /\ last'.old = live[UnitHandle].layout
        /\ Fits(heap, StoredHandle(mem), last'.old)
        /\ heap' = << >>

\* C26: over every sequence of SmallStorage allocate, grow, shrink and
\* deallocate calls: while a handle is live with a layout that does not fit
\* inline, the buffer holds one heap handle and the allocator has exactly
\* one live region, of that layout; while the live layout fits inline or no
\* handle is live the allocator has no live region; deallocating an outline
\* handle calls the allocator's deallocate once with the stored pointer and
\* the current layout.
C26_SmallInvariant ==
    /\ [](kind = "small" => SmallRegions)
    /\ [][kind = "small" => SmallDeallocatesOnce]_vars

----------------------------------------------------------------------------
\* C27: a SmallStorage allocate or grow that returns failure leaves no heap
\* region allocated by that call live in the wrapped allocator, for every
\* inline buffer shape, a buffer that cannot hold a heap handle included.
C27_FailureLeavesNoRegion ==
    [][(kind = "small" /\ last'.op \in {"allocate", "grow"} /\ last'.res = "Err")
        => DOMAIN heap' \subseteq DOMAIN heap]_vars

----------------------------------------------------------------------------
(* Eq and Hash of the handle types.  What a hasher is fed is modelled by   *)
(* the sequence of values written to it.                                   *)

\* derived on the pointer
AllocHandle_eq(a, b) == a = b
AllocHandle_hash(a) == <<a>>
\* the metadata is compared
InlineStorageHandle_eq(a, b) == a.meta = b.meta
InlineStorageHandle_hash(a) == <<a.meta>>
\* the index is not looked at
OneUseArenaStorageHandle_eq(a, b) == TRUE
OneUseArenaStorageHandle_hash(a) == << >>
RefStorageHandle_eq(a, b) == TRUE
RefStorageHandle_hash(a) == << >>

Handle_eq(a, b) ==
    CASE kind \in {"alloc", "vec", "box"} -> AllocHandle_eq(a, b)
      [] kind = "inline" -> InlineStorageHandle_eq(a, b)
      [] kind = "arena" -> OneUseArenaStorageHandle_eq(a, b)
      [] kind = "ref" -> RefStorageHandle_eq(a, b)
      [] kind \in {"small", "borrowed", "dyn"} -> TRUE

Handle_hash(a) ==
    CASE kind \in {"alloc", "vec", "box"} -> AllocHandle_hash(a)
      [] kind = "inline" -> InlineStorageHandle_hash(a)
      [] kind = "arena" -> OneUseArenaStorageHandle_hash(a)
      [] kind = "ref" -> RefStorageHandle_hash(a)
      [] kind \in {"small", "borrowed", "dyn"} -> << >>

\* C28: for every backend, two live handles of one storage that compare
\* equal (and hash equally) resolve to the same address, and live handles
\* that resolve to different regions compare unequal.
C28_HandleEquality ==
    \A h1 \in DOMAIN live : \A h2 \in DOMAIN live \ {h1} :
        LET same == Resolve(mem, h1, live[h1].layout) = Resolve(mem, h2, live[h2].layout)
        IN /\ (Handle_eq(h1, h2) /\ Handle_hash(h1) = Handle_hash(h2)) => same
           /\ ~same => ~Handle_eq(h1, h2)

----------------------------------------------------------------------------
\* C29: after any sequence of RawVec new, grow_to and shrink_to calls, the
\* layout the vec passes to the storage in resolve, resolve_mut, grow,
\* shrink and in deallocate on drop, heap_layout(), is the layout with which
\* the current handle was last allocated or resized.
C29_RawVecLayout ==
    (kind = "vec" /\ DOMAIN live # {}) =>
        /\ heap_layout = live[RawVec_handle].layout
        /\ Fits(heap, RawVec_handle, heap_layout)

----------------------------------------------------------------------------
\* C30: RawBox::new returns the storage to the caller when the allocation
\* fails and otherwise holds exactly one live handle; the drop of a Box runs
\* the payload's destructor once, on memory that is still allocated, and
\* then calls the storage's deallocate once with the box's handle and
\* layout; into_raw_parts runs neither, and from_raw_parts on the parts
\* gives a box that resolves to the same payload.
C30_BoxLifecycle ==
    [][kind = "box" =>
        /\ last'.op = "RawBox::new" =>
             /\ last'.calls = <<"allocate">>
             /\ last'.res \in {"Ok", "Err"}
             /\ last'.res = "Err" =>
                  (origin' = "none" /\ UNCHANGED <<heap, mem, live, allocKind>>)
             /\ last'.res = "Ok" =>
                  /\ DOMAIN live' = {AllocHandle(last'.ret)}
                  /\ DOMAIN heap' = {last'.ret}
                  /\ Fits(heap', last'.ret, store)
                  /\ live'[AllocHandle(last'.ret)].layout = store
        /\ last'.op = "drop" =>
             /\ last'.res = "Ok"
             /\ DOMAIN live = {AllocHandle(last'.ret)}
             /\ dropped = << >> /\ dropped' = <<last'.ret>>
             /\ Fits(heap, last'.ret, last'.old)
             /\ last'.old = live[AllocHandle(last'.ret)].layout
             /\ last'.calls = <<"deallocate">>
             /\ heap' = << >> /\ live' = NoHandles
        /\ last'.op = "into_raw_parts" =>
             /\ last'.calls = << >>
             /\ origin' = "parts"
             /\ UNCHANGED <<heap, mem, live, dropped>>
        /\ last'.op = "from_raw_parts" =>
             /\ last'.calls = << >>
             /\ origin = "parts"
             /\ UNCHANGED <<heap, mem, live, dropped>>
             /\ \A h \in DOMAIN live' :
                  /\ Resolve(mem', h, live'[h].layout) = Resolve(mem, h, live[h].layout)
                  /\ live'[h].wrote => Payload(mem', h, live'[h].layout) = live'[h].data
    ]_vars

\* a written box was taken apart, put together again and dropped
C30_Witness ==
    /\ kind = "box" /\ origin = "from_raw_parts"
    /\ last.op = "drop" /\ last.res = "Ok" /\ last.calls = <<"deallocate">>
    /\ Len(dropped) = 1
    /\ heap = << >> /\ live = NoHandles

====
